---- MODULE Spec2Model ----
(***************************************************************************)
(* A model of the call orchestration of library/secret-methods.c           *)
(* (libsecret): the Search, GetSecrets and Lookup chains, each a           *)
(* GSimpleAsyncResult (res) with a closure, driven by the replies of the   *)
(* remote calls it issued.                                                 *)
(***************************************************************************)
EXTENDS Integers, Sequences, FiniteSets, TLC

(***************************************************************************)
(* Bounds of the model.                                                    *)
(***************************************************************************)
\* longest SearchItems reply (unlocked and locked paths together)
MaxLen == 3
\* longest SearchItems reply when two chains run side by side
MaxLenShared == 1
\* longest list of items given to secret_service_get_secrets
MaxItems == 2
\* longest list of paths an Unlock call reports
MaxUnlocked == 2

Paths == {"a", "b"}
Chains == {1, 2}

SeqsUpTo(S, n) == UNION {[1..k -> S] : k \in 0..n}

\* SearchItems replies: (unlocked, locked), in the order the service gives
Replies(n) ==
    {r \in SeqsUpTo(Paths, n) \X SeqsUpTo(Paths, n) : Len(r[1]) + Len(r[2]) <= n}

(***************************************************************************)
(* Values.  An item handle is <<path, chain, call>>: chain 0 marks the     *)
(* instance the service already holds, <<p, c, i>> the proxy created by    *)
(* the i-th load call of chain c.  An error is <<domain, call>>.           *)
(***************************************************************************)
NoItem == <<"none", 0, 0>>
NoError == <<"none", 0>>
Cancelled == <<"Cancelled", 0>>
Failed(i) == <<"Failed", i>>
Registered(p) == <<p, 0, 0>>
PathOf(item) == item[1]

VARIABLES
    registry,   \* the paths whose instance the service holds
    crashed,    \* the process was killed by an invalid memory access
    replyBound, \* the longest SearchItems reply of this run
    search,     \* per chain: the SearchClosure and its GSimpleAsyncResult
    get,        \* the GetClosure of a GetSecrets chain and its res
    lookup,     \* the LookupClosure of a Lookup chain and its res
    remove,     \* the DeleteClosure of a Remove chain and its res
    store,      \* the res of a Store chain
    sync,       \* the SecretSync of a blocking call
    xlock,      \* the XlockClosure of a Lock / Unlock chain and its res
    alias,      \* the ReadClosure of a ReadAlias chain and its res
    setalias    \* the res of a SetAlias chain

vars == <<registry, crashed, replyBound, search, get, lookup,
         remove, store, sync, xlock, alias, setalias>>

(***************************************************************************)
(* SearchClosure (g_slice_new0: every field zero) and its res.             *)
(***************************************************************************)
NewSearch ==
    [ started     |-> FALSE,
      cancelled   |-> FALSE,       \* the GCancellable was triggered
      call        |-> "none",      \* the SearchItems call: none, pending, done
      listsSet    |-> FALSE,       \* closure->unlocked / locked are non-NULL
      unlocked    |-> <<>>,
      locked      |-> <<>>,
      items       |-> [p \in Paths |-> NoItem],
      dangling    |-> {},          \* keys of items whose string was freed
      loading     |-> 0,           \* guint; a negative value stands for
                                   \* the wrapped one, 2^32 + value
      loads       |-> <<>>,        \* load calls issued: [path, st], st one
                                   \* of pending, item, error
      error       |-> NoError,     \* res->error
      completions |-> 0,           \* calls of g_simple_async_result_complete
      refs        |-> 0,           \* references held on res
      released    |-> 0,           \* times search_closure_free ran
      \* history, read by the properties only
      searchFailed |-> FALSE,
      readUnset    |-> FALSE,
      firstError   |-> NoError,
      loadErrors   |-> 0,
      cancelMid    |-> FALSE,
      loadsAtCancel |-> 0,
      \* what secret_service_search_finish handed out
      finished    |-> FALSE,
      ret         |-> FALSE,
      outUnlocked |-> <<>>,
      outLocked   |-> <<>>,
      outError    |-> NoError ]

(***************************************************************************)
(* GetClosure and its res.  closure->out is the GetSecrets reply, a        *)
(* dictionary from paths to encoded secrets: here the set of its paths     *)
(* (outPaths) and those of them whose secret the session cannot decode     *)
(* (outBad).                                                               *)
(***************************************************************************)
NoValue == <<"none", "">>
SecretOf(p) == <<"secret", p>>

NewGet ==
    [ started     |-> FALSE,
      cancelled   |-> FALSE,
      input       |-> <<>>,        \* the GList of items given
      inPaths     |-> <<>>,        \* closure->in
      items       |-> [p \in Paths |-> NoItem],
      call        |-> "none",      \* none, session, GetSecrets, done
      calls       |-> <<>>,        \* GetSecrets calls issued: their paths
      replied     |-> FALSE,       \* closure->out holds a reply
      outPaths    |-> {},
      outBad      |-> {},
      error       |-> NoError,
      completions |-> 0,
      refs        |-> 0,           \* references held on res
      released    |-> 0,           \* times the closure was freed
      finished    |-> FALSE,
      ret         |-> FALSE,       \* finish returned a table
      outTable    |-> {},          \* its entries, <<item, value>>
      outError    |-> NoError ]

(***************************************************************************)
(* LookupClosure and its res.                                              *)
(***************************************************************************)
NewLookup ==
    [ started     |-> FALSE,
      rejected    |-> FALSE,       \* the attributes failed validation
      cancelled   |-> FALSE,
      call        |-> "none",      \* none, search, unlock, get_secret, done
      calls       |-> <<>>,        \* remote calls issued: <<method, paths>>
      value       |-> NoValue,     \* closure->value
      error       |-> NoError,
      completions |-> 0,
      refs        |-> 0,           \* references held on res
      released    |-> 0,           \* times the closure was freed
      \* history, read by the properties only
      searched    |-> FALSE,
      unlocked    |-> <<>>,
      locked      |-> <<>>,
      unlockOk    |-> FALSE,
      unlockPaths |-> <<>>,
      fetched     |-> FALSE,
      fetchValue  |-> NoValue,
      \* what secret_service_lookup_finish handed out
      finished    |-> FALSE,
      outValue    |-> NoValue,
      outError    |-> NoError ]

(***************************************************************************)
(* Helpers of the Search chain.                                            *)
(***************************************************************************)
\* _secret_service_find_item_instance: the instance the service holds
find_item_instance(path) ==
    IF path \in registry THEN Registered(path) ELSE NoItem

\* faulty variant: an error already stored is kept
take_error_keeps_first(r, e) ==
    IF r.error = NoError THEN [r EXCEPT !.error = e] ELSE r

\* g_simple_async_result_take_error: the error given replaces the stored one
take_error(r, e) == [r EXCEPT !.error = e]

\* g_simple_async_result_complete: runs the caller's callback
complete(r) == [r EXCEPT !.completions = @ + 1]

\* g_simple_async_result_new: the res with the one reference of its maker
new_res(r) == [r EXCEPT !.refs = 1]

\* faulty variant of ref: the res handed to a call without a reference
ref_not_taken(r) == r

\* g_object_ref (res), given to a call as the user data of its callback
ref(r) == [r EXCEPT !.refs = @ + 1]

\* g_object_unref (res): the last reference gone, the res is finalized and
\* the destroy function of its closure runs
unref(r) ==
    [r EXCEPT !.refs = @ - 1,
              !.released = IF r.refs = 1 THEN @ + 1 ELSE @]

\* what the properties remember of the errors seen
NoteError(r, e) ==
    [r EXCEPT !.firstError = IF @ = NoError THEN e ELSE @]

\* g_hash_table_insert (closure->items, path, item): the table was made with
\* no key destroy function and g_object_unref for values.  The key is the
\* path string owned by the item inserted first; a second insert for the
\* same path keeps that key and unrefs the old item, which frees a loaded
\* proxy (the table held its only reference) and with it the key's string.
search_closure_take_item(cl, item) ==
    LET p == PathOf(item)
        old == cl.items[p]
        freed == old # NoItem /\ old # item /\ old[2] # 0
    IN [cl EXCEPT !.items[p] = item,
                  !.dangling = IF freed THEN @ \cup {p} ELSE @]

\* faulty variant: a load is started whatever the service holds
search_load_item_async_always_loads(cl, path) ==
    [cl EXCEPT !.loads = Append(@, [path |-> path, st |-> "pending"]),
               !.loading = @ + 1]

\* faulty variant: the load is started and the pending count left alone
search_load_item_async_uncounted(cl, path) ==
    LET item == find_item_instance(path)
    IN IF item = NoItem
       THEN ref([cl EXCEPT !.loads = Append(@, [path |-> path, st |-> "pending"])])
       ELSE search_closure_take_item(cl, item)

\* search_load_item_async for chain c
search_load_item_async(cl, path) ==
    LET item == find_item_instance(path)
    IN IF item = NoItem
       THEN ref([cl EXCEPT !.loads = Append(@, [path |-> path, st |-> "pending"]),
                           !.loading = @ + 1])
       ELSE search_closure_take_item(cl, item)

\* the two for loops of on_search_paths
RECURSIVE LoadItems(_, _, _)
LoadItems(cl, paths, i) ==
    IF i > Len(paths) THEN cl
    ELSE LoadItems(search_load_item_async(cl, paths[i]), paths, i + 1)

Reverse(s) == [i \in 1..Len(s) |-> s[Len(s) + 1 - i]]

\* g_hash_table_lookup (closure->items, path); a key whose string was freed
\* is compared through a dangling pointer: found, or not (miss)
LookupItem(cl, miss, path) ==
    IF path \in miss THEN NoItem ELSE cl.items[path]

\* search_finish_build: prepend each item found, then reverse
RECURSIVE BuildResults(_, _, _, _, _)
BuildResults(cl, miss, paths, i, results) ==
    IF i > Len(paths) THEN results
    ELSE LET item == LookupItem(cl, miss, paths[i])
         IN BuildResults(cl, miss, paths, i + 1,
                         IF item # NoItem THEN <<item>> \o results ELSE results)

search_finish_build(paths, cl, miss) ==
    Reverse(BuildResults(cl, miss, paths, 1, <<>>))

PendingLoads(r) == {i \in 1..Len(r.loads) : r.loads[i].st = "pending"}
Outstanding(r) == r.call = "pending" \/ PendingLoads(r) # {}

(***************************************************************************)
(* The Search chain.                                                       *)
(***************************************************************************)
\* secret_service_search: new res and closure, SearchItems call issued
secret_service_search(c) ==
    /\ ~crashed
    /\ ~search[c].started
    /\ search' = [search EXCEPT ![c] =
           unref(ref(new_res([@ EXCEPT !.started = TRUE, !.call = "pending"])))]
    /\ UNCHANGED <<registry, crashed, replyBound, get, lookup, remove, store, sync, xlock, alias, setalias>>

\* g_cancellable_cancel on the chain's token while a call is outstanding
CancelSearch(c) ==
    /\ ~crashed
    /\ search[c].started
    /\ ~search[c].cancelled
    /\ Outstanding(search[c])
    /\ search' = [search EXCEPT ![c] =
           [@ EXCEPT !.cancelled = TRUE,
                     !.cancelMid = PendingLoads(search[c]) # {},
                     !.loadsAtCancel = Len(search[c].loads)]]
    /\ UNCHANGED <<registry, crashed, replyBound, get, lookup, remove, store, sync, xlock, alias, setalias>>

\* on_search_paths, the SearchItems call succeeded with (unl, lck)
on_search_paths_ok(r, unl, lck) ==
    LET r1 == [r EXCEPT !.call = "done", !.listsSet = TRUE,
                        !.unlocked = unl, !.locked = lck]
        r2 == LoadItems(r1, unl, 1)
        r3 == LoadItems(r2, lck, 1)
    IN unref(IF r3.loading = 0 THEN complete(r3) ELSE r3)

\* on_search_paths, the SearchItems call failed with e: the error is taken
\* and the chain completed, and (no return) the loops then read
\* closure->unlocked, which is still NULL
on_search_paths_failed(r, e) ==
    LET r1 == [r EXCEPT !.call = "done", !.searchFailed = TRUE]
        r2 == complete(take_error(NoteError(r1, e), e))
    IN [r2 EXCEPT !.readUnset = TRUE]

\* what follows the read through NULL when the process survives it: the
\* loops find no path, the pending count is tested and the reference of
\* the callback dropped
after_null_read(r) ==
    unref(IF r.loading = 0 THEN complete(r) ELSE r)

OnSearchPathsOk(c) ==
    /\ ~crashed
    /\ search[c].call = "pending"
    /\ ~search[c].cancelled
    /\ \E rep \in Replies(replyBound) :
           search' = [search EXCEPT ![c] = on_search_paths_ok(@, rep[1], rep[2])]
    /\ UNCHANGED <<registry, crashed, replyBound, get, lookup, remove, store, sync, xlock, alias, setalias>>

OnSearchPathsFailed(c) ==
    /\ ~crashed
    /\ search[c].call = "pending"
    /\ LET e == IF search[c].cancelled THEN Cancelled ELSE Failed(0)
           r == on_search_paths_failed(search[c], e)
       IN \/ /\ crashed' = TRUE
             /\ search' = [search EXCEPT ![c] = r]
          \/ /\ crashed' = crashed
             /\ search' = [search EXCEPT ![c] = after_null_read(r)]
    /\ UNCHANGED <<registry, replyBound, get, lookup, remove, store, sync, xlock, alias, setalias>>

\* faulty variant: a load that fails completes the chain at once
on_search_loaded_aborts_on_error(r, i, item, err) ==
    LET r1 == [r EXCEPT !.loads[i].st = IF item # NoItem THEN "item" ELSE "error",
                        !.loading = @ - 1]
        r2 == IF err # NoError THEN take_error(r1, err) ELSE r1
        r3 == IF item # NoItem THEN search_closure_take_item(r2, item) ELSE r2
    IN IF r3.loading = 0 \/ err # NoError THEN complete(r3) ELSE r3

\* faulty variant: completes on every load reply, whatever the pending count
on_search_loaded_completes_each(r, i, item, err) ==
    LET r1 == [r EXCEPT !.loads[i].st = IF item # NoItem THEN "item" ELSE "error",
                        !.loading = @ - 1]
        r2 == IF err # NoError THEN [r1 EXCEPT !.error = err] ELSE r1
        r3 == IF item # NoItem THEN search_closure_take_item(r2, item) ELSE r2
    IN complete(r3)

\* on_search_loaded for load call i: item and err are what
\* secret_item_new_finish gave
on_search_loaded(r, i, item, err) ==
    LET r1 == [r EXCEPT !.loads[i].st = IF item # NoItem THEN "item" ELSE "error",
                        !.loading = @ - 1]
        r2 == IF err # NoError THEN take_error(r1, err) ELSE r1
        r3 == IF item # NoItem THEN search_closure_take_item(r2, item) ELSE r2
    IN unref(IF r3.loading = 0 THEN complete(r3) ELSE r3)

NoteLoadError(r, err) ==
    IF err = NoError THEN r
    ELSE [NoteError(r, err) EXCEPT !.loadErrors = @ + 1]

\* secret_item_new_finish of a load that succeeded: a new proxy object for
\* the path, owned by the caller
secret_item_new_finish(c, i, path) == <<path, c, i>>

\* the load succeeded
OnSearchLoadedItem(c) ==
    /\ ~crashed
    /\ ~search[c].cancelled
    /\ \E i \in PendingLoads(search[c]) :
           search' = [search EXCEPT ![c] =
               on_search_loaded(@, i,
                   secret_item_new_finish(c, i, search[c].loads[i].path), NoError)]
    /\ UNCHANGED <<registry, crashed, replyBound, get, lookup, remove, store, sync, xlock, alias, setalias>>

\* the load failed, with a cancellation error once the token was triggered
OnSearchLoadedError(c) ==
    /\ ~crashed
    /\ \E i \in PendingLoads(search[c]) :
           LET e == IF search[c].cancelled THEN Cancelled ELSE Failed(i)
           IN search' = [search EXCEPT ![c] =
                  on_search_loaded(NoteLoadError(@, e), i, NoItem, e)]
    /\ UNCHANGED <<registry, crashed, replyBound, get, lookup, remove, store, sync, xlock, alias, setalias>>

\* faulty variant: hands out the lists without looking at the stored error
search_finish_ignores_error(r, miss) ==
    [r EXCEPT !.finished = TRUE, !.ret = TRUE,
              !.outUnlocked = search_finish_build(r.unlocked, r, miss),
              !.outLocked = search_finish_build(r.locked, r, miss)]

\* secret_service_search_finish, called by the callback with both outputs
search_finish(r, miss) ==
    IF r.error # NoError
    THEN [r EXCEPT !.finished = TRUE, !.ret = FALSE, !.outError = r.error]
    ELSE [r EXCEPT !.finished = TRUE, !.ret = TRUE,
                   !.outUnlocked = search_finish_build(r.unlocked, r, miss),
                   !.outLocked = search_finish_build(r.locked, r, miss)]

SearchFinish(c) ==
    /\ ~crashed
    /\ search[c].completions > 0
    /\ ~search[c].finished
    /\ \E miss \in SUBSET search[c].dangling :
           search' = [search EXCEPT ![c] = search_finish(@, miss)]
    /\ UNCHANGED <<registry, crashed, replyBound, get, lookup, remove, store, sync, xlock, alias, setalias>>

\* service_load_items_sync: each path in turn, the service's instance or
\* else secret_item_new_sync, a new proxy owned by the caller or, for the
\* paths of fail, NULL; the first NULL frees the list built and returns FALSE
RECURSIVE service_load_items_sync(_, _, _, _)
service_load_items_sync(paths, fail, i, result) ==
    IF i > Len(paths) THEN [ok |-> TRUE, items |-> Reverse(result)]
    ELSE LET found == find_item_instance(paths[i])
             item == IF found # NoItem THEN found
                     ELSE IF paths[i] \in fail THEN NoItem
                     ELSE <<paths[i], Cardinality(Chains) + 1, i>>
         IN IF item = NoItem THEN [ok |-> FALSE, items |-> <<>>]
            ELSE service_load_items_sync(paths, fail, i + 1, <<item>> \o result)

\* secret_service_search_sync with both outputs: searchOk is what
\* secret_service_search_for_paths_sync returned with (unl, lck); the locked
\* paths are loaded only when the unlocked ones all were
secret_service_search_sync(searchOk, unl, lck, fail) ==
    IF ~searchOk
    THEN [ret |-> FALSE, unlocked |-> <<>>, locked |-> <<>>]
    ELSE LET u == service_load_items_sync(unl, fail, 1, <<>>)
             l == IF u.ok THEN service_load_items_sync(lck, fail, 1, <<>>)
                  ELSE [ok |-> FALSE, items |-> <<>>]
         IN [ret |-> l.ok, unlocked |-> u.items, locked |-> l.items]

SearchStep(c) ==
    \/ secret_service_search(c)
    \/ CancelSearch(c)
    \/ OnSearchPathsOk(c)
    \/ OnSearchPathsFailed(c)
    \/ OnSearchLoadedItem(c)
    \/ OnSearchLoadedError(c)
    \/ SearchFinish(c)

(***************************************************************************)
(* The GetSecrets chain.                                                   *)
(***************************************************************************)
\* the items a caller may hold: the service's instance of a path, or a
\* proxy of its own for it
Proxies == {<<p, k, 0>> : p \in Paths, k \in {0, 3}}

\* the loop of secret_service_get_secrets: g_hash_table_insert of each item
\* under a copy of its path (a later item replaces an earlier one of the
\* same path), and the path appended to the call's argument
RECURSIVE get_secrets_collect(_, _, _)
get_secrets_collect(cl, items, i) ==
    IF i > Len(items) THEN cl
    ELSE get_secrets_collect(
             [cl EXCEPT !.items[PathOf(items[i])] = items[i],
                        !.inPaths = Append(@, PathOf(items[i]))],
             items, i + 1)

\* secret_service_get_secrets: closure built, session requested
secret_service_get_secrets ==
    /\ ~crashed
    /\ ~get.started
    /\ \E items \in SeqsUpTo(Proxies, MaxItems) :
           get' = unref(ref(new_res(
                      [get_secrets_collect(get, items, 1)
                           EXCEPT !.started = TRUE, !.input = items,
                                  !.call = "session"])))
    /\ UNCHANGED <<registry, crashed, replyBound, search, lookup, remove, store, sync, xlock, alias, setalias>>

CancelGet ==
    /\ ~crashed
    /\ get.call \in {"session", "GetSecrets"}
    /\ ~get.cancelled
    /\ get' = [get EXCEPT !.cancelled = TRUE]
    /\ UNCHANGED <<registry, crashed, replyBound, search, lookup, remove, store, sync, xlock, alias, setalias>>

\* faulty variant: the paths are sent in the reverse of the input order
on_get_secrets_session_sends_reversed(r, err) ==
    IF err # NoError
    THEN complete(take_error([r EXCEPT !.call = "done"], err))
    ELSE [r EXCEPT !.call = "GetSecrets", !.calls = Append(@, Reverse(r.inPaths))]

\* on_get_secrets_session
on_get_secrets_session(r, err) ==
    unref(IF err # NoError
          THEN complete(take_error([r EXCEPT !.call = "done"], err))
          ELSE ref([r EXCEPT !.call = "GetSecrets",
                             !.calls = Append(@, r.inPaths)]))

OnGetSecretsSession ==
    /\ ~crashed
    /\ get.call = "session"
    /\ \E err \in (IF get.cancelled THEN {Cancelled} ELSE {NoError, Failed(0)}) :
           get' = on_get_secrets_session(get, err)
    /\ UNCHANGED <<registry, crashed, replyBound, search, lookup, remove, store, sync, xlock, alias, setalias>>

\* on_get_secrets_complete: closure->out is the reply, or the error is taken
on_get_secrets_complete(r, err, paths, bad) ==
    LET r1 == IF err # NoError
              THEN take_error(r, err)
              ELSE [r EXCEPT !.replied = TRUE, !.outPaths = paths, !.outBad = bad]
    IN unref(complete([r1 EXCEPT !.call = "done"]))

OnGetSecretsReply ==
    /\ ~crashed
    /\ get.call = "GetSecrets"
    /\ ~get.cancelled
    /\ \E paths \in SUBSET Paths : \E bad \in SUBSET paths :
           get' = on_get_secrets_complete(get, NoError, paths, bad)
    /\ UNCHANGED <<registry, crashed, replyBound, search, lookup, remove, store, sync, xlock, alias, setalias>>

OnGetSecretsError ==
    /\ ~crashed
    /\ get.call = "GetSecrets"
    /\ get' = on_get_secrets_complete(
                  get, IF get.cancelled THEN Cancelled ELSE Failed(1), {}, {})
    /\ UNCHANGED <<registry, crashed, replyBound, search, lookup, remove, store, sync, xlock, alias, setalias>>

\* _secret_service_decode_get_secrets_all: path -> value, an entry whose
\* secret does not decode (value NULL) is left out
decode_get_secrets_all(paths, bad) ==
    {<<p, SecretOf(p)>> : p \in paths \ bad}

\* faulty variant: a path of the input that the reply leaves out fails the call
get_secrets_finish_wants_all(r) ==
    IF r.error # NoError \/ \E i \in 1..Len(r.inPaths) : r.inPaths[i] \notin r.outPaths
    THEN [r EXCEPT !.finished = TRUE, !.ret = FALSE,
                   !.outError = IF r.error # NoError THEN r.error ELSE Failed(2)]
    ELSE [r EXCEPT !.finished = TRUE, !.ret = TRUE,
                   !.outTable = {<<r.items[e[1]], e[2]>> :
                       e \in {x \in decode_get_secrets_all(r.outPaths, r.outBad) :
                                 r.items[x[1]] # NoItem}}]

\* secret_service_get_secrets_finish: the error, or the decoded table
\* re-keyed by the item closure->items holds for each path
get_secrets_finish(r) ==
    IF r.error # NoError
    THEN [r EXCEPT !.finished = TRUE, !.ret = FALSE, !.outError = r.error]
    ELSE [r EXCEPT !.finished = TRUE, !.ret = TRUE,
                   !.outTable = {<<r.items[e[1]], e[2]>> :
                       e \in {x \in decode_get_secrets_all(r.outPaths, r.outBad) :
                                 r.items[x[1]] # NoItem}}]

GetSecretsFinish ==
    /\ ~crashed
    /\ get.completions > 0
    /\ ~get.finished
    /\ get' = get_secrets_finish(get)
    /\ UNCHANGED <<registry, crashed, replyBound, search, lookup, remove, store, sync, xlock, alias, setalias>>

NextGetSecrets ==
    \/ secret_service_get_secrets
    \/ CancelGet
    \/ OnGetSecretsSession
    \/ OnGetSecretsReply
    \/ OnGetSecretsError
    \/ GetSecretsFinish

(***************************************************************************)
(* The Lookup chain.                                                       *)
(***************************************************************************)
\* secret_service_lookup: nothing happens when a schema is given and the
\* attributes fail _secret_attributes_validate; else the closure is made and
\* the search for paths started
secret_service_lookup(r, valid) ==
    IF ~valid
    THEN [r EXCEPT !.rejected = TRUE]
    ELSE unref(ref(new_res([r EXCEPT !.started = TRUE, !.call = "search",
                   !.calls = Append(@, <<"SearchItems", <<>>>>)])))

SecretServiceLookup ==
    /\ ~crashed
    /\ ~lookup.started /\ ~lookup.rejected
    /\ \E valid \in BOOLEAN : lookup' = secret_service_lookup(lookup, valid)
    /\ UNCHANGED <<registry, crashed, replyBound, search, get, remove, store, sync, xlock, alias, setalias>>

CancelLookup ==
    /\ ~crashed
    /\ lookup.call \in {"search", "unlock", "get_secret"}
    /\ ~lookup.cancelled
    /\ lookup' = [lookup EXCEPT !.cancelled = TRUE]
    /\ UNCHANGED <<registry, crashed, replyBound, search, get, remove, store, sync, xlock, alias, setalias>>

\* faulty variant: a locked match is unlocked even when an unlocked one exists
on_lookup_searched_prefers_locked(r, err, unl, lck) ==
    LET r1 == [r EXCEPT !.searched = (err = NoError),
                        !.unlocked = unl, !.locked = lck]
    IN IF err # NoError
       THEN complete(take_error([r1 EXCEPT !.call = "done"], err))
       ELSE IF lck # <<>>
       THEN [r1 EXCEPT !.call = "unlock",
                       !.calls = Append(@, <<"Unlock", <<lck[1]>>>>)]
       ELSE IF unl # <<>>
       THEN [r1 EXCEPT !.call = "get_secret",
                       !.calls = Append(@, <<"GetSecret", <<unl[1]>>>>)]
       ELSE complete([r1 EXCEPT !.call = "done"])

\* on_lookup_searched: err and (unl, lck) are what
\* secret_service_search_for_paths_finish gave
on_lookup_searched(r, err, unl, lck) ==
    LET r1 == [r EXCEPT !.searched = (err = NoError),
                        !.unlocked = unl, !.locked = lck]
    IN unref(IF err # NoError
       THEN complete(take_error([r1 EXCEPT !.call = "done"], err))
       ELSE IF unl # <<>>
       THEN ref([r1 EXCEPT !.call = "get_secret",
                       !.calls = Append(@, <<"GetSecret", <<unl[1]>>>>)])
       ELSE IF lck # <<>>
       THEN ref([r1 EXCEPT !.call = "unlock",
                       !.calls = Append(@, <<"Unlock", <<lck[1]>>>>)])
       ELSE complete([r1 EXCEPT !.call = "done"]))

OnLookupSearched ==
    /\ ~crashed
    /\ lookup.call = "search"
    /\ \/ /\ ~lookup.cancelled
          /\ \E rep \in Replies(replyBound) :
                 lookup' = on_lookup_searched(lookup, NoError, rep[1], rep[2])
       \/ lookup' = on_lookup_searched(
              lookup, IF lookup.cancelled THEN Cancelled ELSE Failed(0), <<>>, <<>>)
    /\ UNCHANGED <<registry, crashed, replyBound, search, get, remove, store, sync, xlock, alias, setalias>>

\* faulty variant: a failed unlock is noted and the secret fetched all the same
on_lookup_unlocked_fetches_anyway(r, err, unl) ==
    LET r1 == [r EXCEPT !.unlockOk = (err = NoError), !.unlockPaths = unl]
    IN IF err # NoError
       THEN [take_error(r1, err) EXCEPT
                 !.call = "get_secret",
                 !.calls = Append(@, <<"GetSecret", <<r.locked[1]>>>>)]
       ELSE IF unl # <<>>
       THEN [r1 EXCEPT !.call = "get_secret",
                       !.calls = Append(@, <<"GetSecret", <<unl[1]>>>>)]
       ELSE complete([r1 EXCEPT !.call = "done"])

\* faulty variant: the secret is fetched for the path that was sent to Unlock
on_lookup_unlocked_fetches_sent(r, err, unl) ==
    LET r1 == [r EXCEPT !.unlockOk = (err = NoError), !.unlockPaths = unl]
    IN IF err # NoError
       THEN complete(take_error([r1 EXCEPT !.call = "done"], err))
       ELSE IF unl # <<>>
       THEN [r1 EXCEPT !.call = "get_secret",
                       !.calls = Append(@, <<"GetSecret", <<r.locked[1]>>>>)]
       ELSE complete([r1 EXCEPT !.call = "done"])

\* faulty variant: an unlock that unlocked nothing leaves the chain as it is
on_lookup_unlocked_stalls_on_none(r, err, unl) ==
    LET r1 == [r EXCEPT !.unlockOk = (err = NoError), !.unlockPaths = unl]
    IN IF err # NoError
       THEN complete(take_error([r1 EXCEPT !.call = "done"], err))
       ELSE IF unl # <<>>
       THEN [r1 EXCEPT !.call = "get_secret",
                       !.calls = Append(@, <<"GetSecret", <<unl[1]>>>>)]
       ELSE [r1 EXCEPT !.call = "done"]

\* on_lookup_unlocked: err and unl are what
\* secret_service_unlock_paths_finish gave
on_lookup_unlocked(r, err, unl) ==
    LET r1 == [r EXCEPT !.unlockOk = (err = NoError), !.unlockPaths = unl]
    IN unref(IF err # NoError
       THEN complete(take_error([r1 EXCEPT !.call = "done"], err))
       ELSE IF unl # <<>>
       THEN ref([r1 EXCEPT !.call = "get_secret",
                       !.calls = Append(@, <<"GetSecret", <<unl[1]>>>>)])
       ELSE complete([r1 EXCEPT !.call = "done"]))

OnLookupUnlocked ==
    /\ ~crashed
    /\ lookup.call = "unlock"
    /\ \/ /\ ~lookup.cancelled
          /\ \E unl \in SeqsUpTo(Paths, MaxUnlocked) :
                 lookup' = on_lookup_unlocked(lookup, NoError, unl)
       \/ lookup' = on_lookup_unlocked(
              lookup, IF lookup.cancelled THEN Cancelled ELSE Failed(1), <<>>)
    /\ UNCHANGED <<registry, crashed, replyBound, search, get, remove, store, sync, xlock, alias, setalias>>

\* on_lookup_get_secret: value and err are what
\* secret_service_get_secret_for_path_finish gave
on_lookup_get_secret(r, value, err) ==
    LET r1 == [r EXCEPT !.call = "done", !.value = value,
                        !.fetched = TRUE, !.fetchValue = value]
    IN unref(complete(IF err # NoError THEN take_error(r1, err) ELSE r1))

\* the path whose secret the outstanding call fetches
FetchPath(r) == r.calls[Len(r.calls)][2][1]

OnLookupGetSecret ==
    /\ ~crashed
    /\ lookup.call = "get_secret"
    /\ \/ /\ ~lookup.cancelled
          /\ \E value \in {SecretOf(FetchPath(lookup)), NoValue} :
                 lookup' = on_lookup_get_secret(lookup, value, NoError)
       \/ lookup' = on_lookup_get_secret(
              lookup, NoValue, IF lookup.cancelled THEN Cancelled ELSE Failed(2))
    /\ UNCHANGED <<registry, crashed, replyBound, search, get, remove, store, sync, xlock, alias, setalias>>

\* faulty variant: a chain that found no value is reported as a failure
lookup_finish_absent_is_error(r) ==
    IF r.error # NoError \/ r.value = NoValue
    THEN [r EXCEPT !.finished = TRUE,
                   !.outError = IF r.error # NoError THEN r.error ELSE Failed(3)]
    ELSE [r EXCEPT !.finished = TRUE, !.outValue = r.value, !.value = NoValue]

\* secret_service_lookup_finish: the error, or closure->value handed over
lookup_finish(r) ==
    IF r.error # NoError
    THEN [r EXCEPT !.finished = TRUE, !.outError = r.error]
    ELSE [r EXCEPT !.finished = TRUE, !.outValue = r.value, !.value = NoValue]

LookupFinish ==
    /\ ~crashed
    /\ lookup.completions > 0
    /\ ~lookup.finished
    /\ lookup' = lookup_finish(lookup)
    /\ UNCHANGED <<registry, crashed, replyBound, search, get, remove, store, sync, xlock, alias, setalias>>

NextLookup ==
    \/ SecretServiceLookup
    \/ CancelLookup
    \/ OnLookupSearched
    \/ OnLookupUnlocked
    \/ OnLookupGetSecret
    \/ LookupFinish

(***************************************************************************)
(* The Remove chain: DeleteClosure and its res.                            *)
(***************************************************************************)
NewRemove ==
    [ started     |-> FALSE,
      rejected    |-> FALSE,       \* the attributes failed validation
      cancelled   |-> FALSE,
      call        |-> "none",      \* none, search, delete, done
      calls       |-> <<>>,        \* remote calls issued: <<method, paths>>
      deleted     |-> FALSE,       \* closure->deleted
      error       |-> NoError,
      completions |-> 0,
      refs        |-> 0,           \* references held on res
      released    |-> 0,           \* times the closure was freed
      \* history, read by the properties only
      searched    |-> FALSE,
      unlocked    |-> <<>>,
      locked      |-> <<>>,
      deleteDone  |-> FALSE,
      deleteGave  |-> <<FALSE, NoError>>,
      \* what secret_service_remove_finish handed out
      finished    |-> FALSE,
      ret         |-> FALSE,
      outError    |-> NoError ]

\* secret_service_remove: nothing happens when a schema is given and the
\* attributes fail _secret_attributes_validate; else the closure is made and
\* the search for paths started
secret_service_remove(r, valid) ==
    IF ~valid
    THEN [r EXCEPT !.rejected = TRUE]
    ELSE unref(ref(new_res([r EXCEPT !.started = TRUE, !.call = "search",
                   !.calls = Append(@, <<"SearchItems", <<>>>>)])))

SecretServiceRemove ==
    /\ ~crashed
    /\ ~remove.started /\ ~remove.rejected
    /\ \E valid \in BOOLEAN : remove' = secret_service_remove(remove, valid)
    /\ UNCHANGED <<registry, crashed, replyBound, search, get, lookup,
                   store, sync, xlock, alias, setalias>>

CancelRemove ==
    /\ ~crashed
    /\ remove.call \in {"search", "delete"}
    /\ ~remove.cancelled
    /\ remove' = [remove EXCEPT !.cancelled = TRUE]
    /\ UNCHANGED <<registry, crashed, replyBound, search, get, lookup,
                   store, sync, xlock, alias, setalias>>

\* faulty variant: closure->deleted is set although no path was found
on_search_delete_password_sets_deleted(r, err, unl, lck) ==
    LET r1 == [r EXCEPT !.searched = (err = NoError),
                        !.unlocked = unl, !.locked = lck]
        path == IF unl # <<>> THEN unl[1] ELSE IF lck # <<>> THEN lck[1] ELSE "none"
    IN IF err # NoError
       THEN complete(take_error([r1 EXCEPT !.call = "done"], err))
       ELSE IF path = "none"
       THEN complete([r1 EXCEPT !.call = "done", !.deleted = TRUE])
       ELSE [r1 EXCEPT !.call = "delete", !.deleted = TRUE,
                       !.calls = Append(@, <<"Delete", <<path>>>>)]

\* on_search_delete_password: err and (unl, lck) are what
\* secret_service_search_for_paths_finish gave
on_search_delete_password(r, err, unl, lck) ==
    LET r1 == [r EXCEPT !.searched = (err = NoError),
                        !.unlocked = unl, !.locked = lck]
        path == IF unl # <<>> THEN unl[1] ELSE IF lck # <<>> THEN lck[1] ELSE "none"
    IN unref(IF err # NoError
       THEN complete(take_error([r1 EXCEPT !.call = "done"], err))
       ELSE IF path = "none"
       THEN complete([r1 EXCEPT !.call = "done", !.deleted = FALSE])
       ELSE ref([r1 EXCEPT !.call = "delete", !.deleted = TRUE,
                       !.calls = Append(@, <<"Delete", <<path>>>>)]))

OnSearchDeletePassword ==
    /\ ~crashed
    /\ remove.call = "search"
    /\ \/ /\ ~remove.cancelled
          /\ \E rep \in Replies(replyBound) :
                 remove' = on_search_delete_password(remove, NoError, rep[1], rep[2])
       \/ remove' = on_search_delete_password(
              remove, IF remove.cancelled THEN Cancelled ELSE Failed(0), <<>>, <<>>)
    /\ UNCHANGED <<registry, crashed, replyBound, search, get, lookup,
                   store, sync, xlock, alias, setalias>>

\* faulty variant: what the delete call reported is not stored
on_delete_password_complete_keeps_flag(r, deleted, err) ==
    LET r1 == [r EXCEPT !.call = "done",
                        !.deleteDone = TRUE, !.deleteGave = <<deleted, err>>]
    IN complete(IF err # NoError THEN take_error(r1, err) ELSE r1)

\* on_delete_password_complete: deleted and err are what
\* secret_service_delete_path_finish gave
on_delete_password_complete(r, deleted, err) ==
    LET r1 == [r EXCEPT !.call = "done", !.deleted = deleted,
                        !.deleteDone = TRUE, !.deleteGave = <<deleted, err>>]
    IN unref(complete(IF err # NoError THEN take_error(r1, err) ELSE r1))

OnDeletePasswordComplete ==
    /\ ~crashed
    /\ remove.call = "delete"
    /\ \/ /\ ~remove.cancelled
          /\ \E deleted \in BOOLEAN :
                 remove' = on_delete_password_complete(remove, deleted, NoError)
       \/ remove' = on_delete_password_complete(
              remove, FALSE, IF remove.cancelled THEN Cancelled ELSE Failed(1))
    /\ UNCHANGED <<registry, crashed, replyBound, search, get, lookup,
                   store, sync, xlock, alias, setalias>>

\* secret_service_remove_finish: FALSE with the error, or closure->deleted
remove_finish(r) ==
    IF r.error # NoError
    THEN [r EXCEPT !.finished = TRUE, !.ret = FALSE, !.outError = r.error]
    ELSE [r EXCEPT !.finished = TRUE, !.ret = r.deleted]

RemoveFinish ==
    /\ ~crashed
    /\ remove.completions > 0
    /\ ~remove.finished
    /\ remove' = remove_finish(remove)
    /\ UNCHANGED <<registry, crashed, replyBound, search, get, lookup,
                   store, sync, xlock, alias, setalias>>

NextRemove ==
    \/ SecretServiceRemove
    \/ CancelRemove
    \/ OnSearchDeletePassword
    \/ OnDeletePasswordComplete
    \/ RemoveFinish

(***************************************************************************)
(* The Store chain.  secret_service_store hands the caller's callback to   *)
(* secret_service_create_item_path, whose res is the chain's.              *)
(***************************************************************************)
NewStore ==
    [ started     |-> FALSE,
      rejected    |-> FALSE,       \* the attributes failed validation
      cancelled   |-> FALSE,
      call        |-> "none",      \* none, create, done
      calls       |-> <<>>,        \* remote calls issued: <<method, paths>>
      path        |-> "none",      \* the path of the item created
      error       |-> NoError,
      completions |-> 0,
      \* what secret_service_store_finish handed out
      finished    |-> FALSE,
      ret         |-> FALSE,
      outError    |-> NoError ]

\* faulty variant: a validation failure is reported through the callback
secret_service_store_reports_late(r, valid) ==
    IF ~valid
    THEN complete([r EXCEPT !.rejected = TRUE, !.error = Failed(3)])
    ELSE [r EXCEPT !.started = TRUE, !.call = "create",
                   !.calls = Append(@, <<"CreateItem", <<>>>>)]

\* secret_service_store: nothing happens when a schema is given and the
\* attributes fail _secret_attributes_validate; else the properties are
\* built and the item creation started
secret_service_store(r, valid) ==
    IF ~valid
    THEN [r EXCEPT !.rejected = TRUE]
    ELSE [r EXCEPT !.started = TRUE, !.call = "create",
                   !.calls = Append(@, <<"CreateItem", <<>>>>)]

SecretServiceStore ==
    /\ ~crashed
    /\ ~store.started /\ ~store.rejected
    /\ \E valid \in BOOLEAN : store' = secret_service_store(store, valid)
    /\ UNCHANGED <<registry, crashed, replyBound, search, get, lookup,
                   remove, sync, xlock, alias, setalias>>

CancelStore ==
    /\ ~crashed
    /\ store.call = "create"
    /\ ~store.cancelled
    /\ store' = [store EXCEPT !.cancelled = TRUE]
    /\ UNCHANGED <<registry, crashed, replyBound, search, get, lookup,
                   remove, sync, xlock, alias, setalias>>

\* the item creation is over and runs the callback: path and err are what
\* secret_service_create_item_path_finish will give
create_item_path_done(r, path, err) ==
    LET r1 == [r EXCEPT !.call = "done", !.path = path]
    IN complete(IF err # NoError THEN take_error(r1, err) ELSE r1)

OnStoreCreated ==
    /\ ~crashed
    /\ store.call = "create"
    /\ \/ /\ ~store.cancelled
          /\ \E p \in Paths : store' = create_item_path_done(store, p, NoError)
       \/ store' = create_item_path_done(
              store, "none", IF store.cancelled THEN Cancelled ELSE Failed(0))
    /\ UNCHANGED <<registry, crashed, replyBound, search, get, lookup,
                   remove, sync, xlock, alias, setalias>>

\* secret_service_store_finish: whether a path was given
store_finish(r) ==
    IF r.error # NoError
    THEN [r EXCEPT !.finished = TRUE, !.ret = FALSE, !.outError = r.error]
    ELSE [r EXCEPT !.finished = TRUE, !.ret = (r.path # "none")]

StoreFinish ==
    /\ ~crashed
    /\ store.completions > 0
    /\ ~store.finished
    /\ store' = store_finish(store)
    /\ UNCHANGED <<registry, crashed, replyBound, search, get, lookup,
                   remove, sync, xlock, alias, setalias>>

(***************************************************************************)
(* The blocking forms: a SecretSync with a main context of its own, pushed *)
(* as the thread default while the chain runs, and a loop that             *)
(* _secret_sync_on_result, the chain's callback, quits.                    *)
(***************************************************************************)
\* main contexts: the global default one, the one of a blocking call that
\* encloses this one, and the one _secret_sync_new makes
DefaultContext == 0
EnclosingContext == 1
PrivateContext == 2

\* the thread's stack of default contexts when a blocking form is called
Ambients == {<<>>, <<EnclosingContext>>}

\* g_main_context_get_thread_default
ThreadDefault(stack) ==
    IF stack = <<>> THEN DefaultContext ELSE stack[Len(stack)]

\* g_main_context_push_thread_default
push_thread_default(stack, context) == Append(stack, context)

\* g_main_context_pop_thread_default: the context given has to be the one
\* on top
pop_thread_default(stack, context) ==
    IF stack # <<>> /\ stack[Len(stack)] = context
    THEN SubSeq(stack, 1, Len(stack) - 1)
    ELSE stack

NewSync ==
    [ op        |-> "none",        \* none, or the chain that is run
      stage     |-> "none",        \* none, loop, returned
      rejected  |-> FALSE,         \* returned on a validation failure
      pushes    |-> 0,             \* g_main_context_push_thread_default
      pops      |-> 0,             \* g_main_context_pop_thread_default
      loopRuns  |-> 0,             \* g_main_loop_run
      before    |-> <<>>,          \* the thread's default contexts at the call
      stack     |-> <<>>,          \* the thread's default contexts now
      context   |-> DefaultContext,   \* sync->context
      loopContext |-> DefaultContext, \* the context sync->loop iterates
      bound     |-> DefaultContext,   \* the thread default when the chain
                                      \* was started: its calls answer there
      retBool   |-> FALSE,         \* what store, remove, set_alias returned
      retValue  |-> NoValue,       \* what lookup_sync returned
      retCount  |-> 0,             \* what lock_sync or unlock_sync returned
      retList   |-> <<>>,          \* and the list it wrote
      retTable  |-> {},            \* what get_secrets_sync returned
      outError  |-> NoError ]

\* no chain is running and no blocking call is in progress
Quiet ==
    /\ ~store.started /\ ~lookup.started /\ ~remove.started
    /\ ~get.started /\ ~xlock.started /\ ~setalias.started
    /\ sync.stage = "none"

\* a blocking form is called with the thread's default contexts as given
called_in(s, ambient) == [s EXCEPT !.before = ambient, !.stack = ambient]

\* the blocking form returns its failure value on a validation failure
sync_rejected(s, op) ==
    [s EXCEPT !.op = op, !.stage = "returned", !.rejected = TRUE]

\* faulty variant: the loop that is run iterates the context that was the
\* thread default at the call
sync_run_on_ambient(s, op) ==
    LET stack == push_thread_default(s.stack, PrivateContext)
    IN [s EXCEPT !.op = op, !.stage = "loop",
                 !.pushes = @ + 1, !.loopRuns = @ + 1,
                 !.context = PrivateContext,
                 !.stack = stack,
                 !.bound = ThreadDefault(stack),
                 !.loopContext = ThreadDefault(s.stack)]

\* _secret_sync_new, g_main_context_push_thread_default, (the chain is
\* started: its calls are bound to the thread default of that moment) and
\* g_main_loop_run of the loop made for sync->context
sync_run(s, op) ==
    LET stack == push_thread_default(s.stack, PrivateContext)
    IN [s EXCEPT !.op = op, !.stage = "loop",
                 !.pushes = @ + 1, !.loopRuns = @ + 1,
                 !.context = PrivateContext,
                 !.stack = stack,
                 !.bound = ThreadDefault(stack),
                 !.loopContext = PrivateContext]

\* faulty variant: the context is left pushed when finish gave an error
sync_pop_unless_error(s, err) ==
    IF err # NoError
    THEN [s EXCEPT !.stage = "returned", !.outError = err]
    ELSE [s EXCEPT !.stage = "returned", !.pops = @ + 1, !.outError = err,
                   !.stack = pop_thread_default(@, s.context)]

\* g_main_context_pop_thread_default and _secret_sync_free, after finish
sync_pop(s, err) ==
    [s EXCEPT !.stage = "returned", !.pops = @ + 1, !.outError = err,
              !.stack = pop_thread_default(@, s.context)]

\* the context whose loop runs: the one of the blocking call while it runs
\* its loop, else the one of the thread
Iterating ==
    IF sync.stage = "loop" THEN sync.loopContext ELSE ThreadDefault(sync.stack)

\* the context the calls of chain n answer in: the thread default when they
\* were issued
ChainContext(n) ==
    IF sync.stage # "none" /\ sync.op = n THEN sync.bound ELSE DefaultContext

\* the handlers of chain n can be run
Dispatching(n) == ChainContext(n) = Iterating

\* secret_service_store_sync up to g_main_loop_run
SecretServiceStoreSync ==
    /\ ~crashed
    /\ Quiet /\ ~store.rejected
    /\ \E valid \in BOOLEAN, ambient \in Ambients :
           IF ~valid
           THEN /\ sync' = sync_rejected(called_in(sync, ambient), "store")
                /\ store' = store
           ELSE /\ sync' = sync_run(called_in(sync, ambient), "store")
                /\ store' = secret_service_store(store, valid)
    /\ UNCHANGED <<registry, crashed, replyBound, search, get, lookup,
                   remove, xlock, alias, setalias>>

\* secret_service_store_sync once the loop was quit
StoreSyncReturn ==
    /\ ~crashed
    /\ sync.op = "store" /\ sync.stage = "loop"
    /\ store.completions > 0
    /\ store' = store_finish(store)
    /\ sync' = [sync_pop(sync, store'.outError) EXCEPT !.retBool = store'.ret]
    /\ UNCHANGED <<registry, crashed, replyBound, search, get, lookup,
                   remove, xlock, alias, setalias>>

\* secret_service_lookup_sync up to g_main_loop_run
SecretServiceLookupSync ==
    /\ ~crashed
    /\ Quiet /\ ~lookup.rejected
    /\ \E valid \in BOOLEAN, ambient \in Ambients :
           IF ~valid
           THEN /\ sync' = sync_rejected(called_in(sync, ambient), "lookup")
                /\ lookup' = lookup
           ELSE /\ sync' = sync_run(called_in(sync, ambient), "lookup")
                /\ lookup' = secret_service_lookup(lookup, valid)
    /\ UNCHANGED <<registry, crashed, replyBound, search, get, store,
                   remove, xlock, alias, setalias>>

\* secret_service_lookup_sync once the loop was quit
LookupSyncReturn ==
    /\ ~crashed
    /\ sync.op = "lookup" /\ sync.stage = "loop"
    /\ lookup.completions > 0
    /\ lookup' = lookup_finish(lookup)
    /\ sync' = [sync_pop(sync, lookup'.outError) EXCEPT !.retValue = lookup'.outValue]
    /\ UNCHANGED <<registry, crashed, replyBound, search, get, store,
                   remove, xlock, alias, setalias>>

\* secret_service_remove_sync up to g_main_loop_run
SecretServiceRemoveSync ==
    /\ ~crashed
    /\ Quiet /\ ~remove.rejected
    /\ \E valid \in BOOLEAN, given \in BOOLEAN, ambient \in Ambients :
           \* valid: no schema, or the attributes fit it, the one test of
           \* the attributes made here; given: attributes != NULL, which
           \* secret_service_remove alone requires
           IF ~valid
           THEN /\ sync' = sync_rejected(called_in(sync, ambient), "remove")
                /\ remove' = remove
           ELSE /\ sync' = sync_run(called_in(sync, ambient), "remove")
                /\ remove' = secret_service_remove(remove, given)
    /\ UNCHANGED <<registry, crashed, replyBound, search, get, lookup,
                   store, xlock, alias, setalias>>

\* secret_service_remove_sync once the loop was quit
RemoveSyncReturn ==
    /\ ~crashed
    /\ sync.op = "remove" /\ sync.stage = "loop"
    /\ remove.completions > 0
    /\ remove' = remove_finish(remove)
    /\ sync' = [sync_pop(sync, remove'.outError) EXCEPT !.retBool = remove'.ret]
    /\ UNCHANGED <<registry, crashed, replyBound, search, get, lookup,
                   store, xlock, alias, setalias>>

(***************************************************************************)
(* The Lock / Unlock chain: XlockClosure and its res.                      *)
(***************************************************************************)
NewXlock ==
    [ started     |-> FALSE,
      method      |-> "none",      \* Lock or Unlock
      cancelled   |-> FALSE,
      input       |-> <<>>,        \* the GList of objects given
      sent        |-> <<>>,        \* the paths of the call's argument
      objects     |-> [p \in Paths |-> NoItem],   \* closure->objects
      call        |-> "none",      \* none, called, prompt, done
      calls       |-> <<>>,        \* remote calls issued: <<method, paths>>
      xlocked     |-> <<>>,        \* closure->xlocked
      error       |-> NoError,
      completions |-> 0,
      refs        |-> 0,           \* references held on res
      released    |-> 0,           \* times the closure was freed
      \* history, read by the properties only
      replied     |-> FALSE,       \* the Lock / Unlock call gave a reply
      replyPaths  |-> <<>>,
      replyPrompt |-> FALSE,       \* the reply named a prompt
      promptGave  |-> "none",      \* none, paths, dismissed, error
      promptPaths |-> <<>>,
      promptToken |-> "none",      \* the cancellable given to the prompt
      cancelledAt |-> "none",      \* the call outstanding when cancelled
      \* what service_xlock_finish handed out
      finished    |-> FALSE,
      wantList    |-> FALSE,       \* the caller gave a location for the list
      count       |-> 0,
      handed      |-> FALSE,       \* closure->xlocked was handed over
      outPaths    |-> <<>>,
      listSet     |-> FALSE,       \* the caller's location was written
      outList     |-> <<>>,
      outError    |-> NoError ]

\* the loop of service_xlock_async: the path of each object appended to the
\* call's argument, and g_hash_table_insert of the object under a copy of
\* its path (a later object replaces an earlier one of the same path)
RECURSIVE xlock_collect(_, _, _)
xlock_collect(cl, objects, i) ==
    IF i > Len(objects) THEN cl
    ELSE xlock_collect(
             [cl EXCEPT !.objects[PathOf(objects[i])] = objects[i],
                        !.sent = Append(@, PathOf(objects[i]))],
             objects, i + 1)

\* service_xlock_async with service_xlock_paths_async: table built, call
\* issued with the paths
service_xlock_async(r, method, objects) ==
    LET r1 == xlock_collect(r, objects, 1)
    IN unref(ref(new_res([r1 EXCEPT !.started = TRUE, !.method = method, !.input = objects,
                  !.call = "called", !.calls = Append(@, <<method, r1.sent>>)])))

\* secret_service_lock and secret_service_unlock
SecretServiceXlock ==
    /\ ~crashed
    /\ ~xlock.started
    /\ \E method \in {"Lock", "Unlock"} :
       \E objects \in SeqsUpTo(Proxies, MaxItems) :
           xlock' = service_xlock_async(xlock, method, objects)
    /\ UNCHANGED <<registry, crashed, replyBound, search, get, lookup,
                   remove, store, sync, alias, setalias>>

CancelXlock ==
    /\ ~crashed
    /\ xlock.call \in {"called", "prompt"}
    /\ ~xlock.cancelled
    /\ xlock' = [xlock EXCEPT !.cancelled = TRUE, !.cancelledAt = xlock.call]
    /\ UNCHANGED <<registry, crashed, replyBound, search, get, lookup,
                   remove, store, sync, alias, setalias>>

\* faulty variant: a reply that names a prompt completes the chain before
\* the prompt is issued
on_xlock_called_completes_before_prompt(r, err, paths, prompt) ==
    LET r1 == [r EXCEPT !.replied = (err = NoError),
                        !.replyPaths = paths, !.replyPrompt = prompt]
    IN IF err # NoError
       THEN complete(take_error([r1 EXCEPT !.call = "done"], err))
       ELSE IF ~prompt
       THEN complete([r1 EXCEPT !.call = "done", !.xlocked = @ \o paths])
       ELSE complete([r1 EXCEPT !.call = "prompt", !.promptToken = "chain",
                                !.calls = Append(@, <<"Prompt", <<>>>>)])

\* faulty variant: the paths of the reply are taken in reverse
on_xlock_called_reverses(r, err, paths, prompt) ==
    LET r1 == [r EXCEPT !.replied = (err = NoError),
                        !.replyPaths = paths, !.replyPrompt = prompt]
    IN IF err # NoError
       THEN complete(take_error([r1 EXCEPT !.call = "done"], err))
       ELSE IF ~prompt
       THEN complete([r1 EXCEPT !.call = "done", !.xlocked = @ \o Reverse(paths)])
       ELSE [r1 EXCEPT !.call = "prompt", !.promptToken = "chain",
                       !.calls = Append(@, <<"Prompt", <<>>>>)]

\* faulty variant: the paths of a reply that names a prompt are kept
on_xlock_called_keeps_reply(r, err, paths, prompt) ==
    LET r1 == [r EXCEPT !.replied = (err = NoError),
                        !.replyPaths = paths, !.replyPrompt = prompt]
    IN IF err # NoError
       THEN complete(take_error([r1 EXCEPT !.call = "done"], err))
       ELSE IF ~prompt
       THEN complete([r1 EXCEPT !.call = "done", !.xlocked = @ \o paths])
       ELSE [r1 EXCEPT !.call = "prompt", !.xlocked = @ \o paths,
                       !.promptToken = "chain",
                       !.calls = Append(@, <<"Prompt", <<>>>>)]

\* faulty variant: the prompt is issued with no cancellable
on_xlock_called_prompts_without_token(r, err, paths, prompt) ==
    LET r1 == [r EXCEPT !.replied = (err = NoError),
                        !.replyPaths = paths, !.replyPrompt = prompt]
    IN IF err # NoError
       THEN complete(take_error([r1 EXCEPT !.call = "done"], err))
       ELSE IF ~prompt
       THEN complete([r1 EXCEPT !.call = "done", !.xlocked = @ \o paths])
       ELSE [r1 EXCEPT !.call = "prompt", !.promptToken = "NULL",
                       !.calls = Append(@, <<"Prompt", <<>>>>)]

\* on_xlock_called: err is what g_dbus_proxy_call_finish gave, (paths,
\* prompt) the reply, prompt telling that its prompt path is not empty; the
\* prompt is issued with closure->cancellable
on_xlock_called(r, err, paths, prompt) ==
    LET r1 == [r EXCEPT !.replied = (err = NoError),
                        !.replyPaths = paths, !.replyPrompt = prompt]
    IN unref(IF err # NoError
       THEN complete(take_error([r1 EXCEPT !.call = "done"], err))
       ELSE IF ~prompt
       THEN complete([r1 EXCEPT !.call = "done", !.xlocked = @ \o paths])
       ELSE ref([r1 EXCEPT !.call = "prompt", !.promptToken = "chain",
                       !.calls = Append(@, <<"Prompt", <<>>>>)]))

OnXlockCalled ==
    /\ ~crashed
    /\ xlock.call = "called"
    /\ \/ /\ ~xlock.cancelled
          /\ \E paths \in SeqsUpTo(Paths, MaxUnlocked), prompt \in BOOLEAN :
                 xlock' = on_xlock_called(xlock, NoError, paths, prompt)
       \/ xlock' = on_xlock_called(
              xlock, IF xlock.cancelled THEN Cancelled ELSE Failed(0), <<>>, FALSE)
    /\ UNCHANGED <<registry, crashed, replyBound, search, get, lookup,
                   remove, store, sync, alias, setalias>>

\* faulty variant: a prompt that gave no result has the call issued again
on_xlock_prompted_calls_again(r, err, has, paths) ==
    LET r1 == [r EXCEPT !.call = "done",
                        !.promptGave = IF err # NoError THEN "error"
                                       ELSE IF has THEN "paths" ELSE "dismissed",
                        !.promptPaths = paths]
        r2 == IF err # NoError THEN take_error(r1, err) ELSE r1
        r3 == IF has THEN [r2 EXCEPT !.xlocked = @ \o paths] ELSE r2
    IN IF err = NoError /\ ~has
       THEN [r3 EXCEPT !.call = "called",
                       !.calls = Append(@, <<r.method, r.sent>>)]
       ELSE complete(r3)

\* faulty variant: a prompt that gave neither a result nor an error fails
\* the chain
on_xlock_prompted_dismissal_fails(r, err, has, paths) ==
    LET r1 == [r EXCEPT !.call = "done",
                        !.promptGave = IF err # NoError THEN "error"
                                       ELSE IF has THEN "paths" ELSE "dismissed",
                        !.promptPaths = paths]
        r2 == IF err # NoError THEN take_error(r1, err)
              ELSE IF ~has THEN take_error(r1, Failed(3)) ELSE r1
        r3 == IF has THEN [r2 EXCEPT !.xlocked = @ \o paths] ELSE r2
    IN complete(r3)

\* on_xlock_prompted: err and the result (has: it is not NULL; paths: its
\* array of paths) are what secret_service_prompt_finish gave
on_xlock_prompted(r, err, has, paths) ==
    LET r1 == [r EXCEPT !.call = "done",
                        !.promptGave = IF err # NoError THEN "error"
                                       ELSE IF has THEN "paths" ELSE "dismissed",
                        !.promptPaths = paths]
        r2 == IF err # NoError THEN take_error(r1, err) ELSE r1
        r3 == IF has THEN [r2 EXCEPT !.xlocked = @ \o paths] ELSE r2
    IN unref(complete(r3))

\* the prompt ends with a cancellation error once the cancellable it was
\* given is triggered
PromptCancelled(r) == r.cancelled /\ r.promptToken = "chain"

OnXlockPrompted ==
    /\ ~crashed
    /\ xlock.call = "prompt"
    /\ \/ /\ ~PromptCancelled(xlock)
          /\ \/ \E paths \in SeqsUpTo(Paths, MaxUnlocked) :
                    xlock' = on_xlock_prompted(xlock, NoError, TRUE, paths)
             \/ xlock' = on_xlock_prompted(xlock, NoError, FALSE, <<>>)
       \/ xlock' = on_xlock_prompted(
              xlock, IF PromptCancelled(xlock) THEN Cancelled ELSE Failed(1),
              FALSE, <<>>)
    /\ UNCHANGED <<registry, crashed, replyBound, search, get, lookup,
                   remove, store, sync, alias, setalias>>

\* service_xlock_paths_finish: -1 with the error, or the count; the array
\* of paths is handed over when asked for
service_xlock_paths_finish(r, want) ==
    IF r.error # NoError
    THEN [r EXCEPT !.count = -1, !.outError = r.error]
    ELSE IF want
    THEN [r EXCEPT !.count = Len(r.xlocked), !.handed = TRUE,
                   !.outPaths = r.xlocked, !.xlocked = <<>>]
    ELSE [r EXCEPT !.count = Len(r.xlocked)]

\* the loop of service_xlock_finish: each object found prepended
RECURSIVE xlock_finish_build(_, _, _, _)
xlock_finish_build(r, paths, i, results) ==
    IF i > Len(paths) THEN results
    ELSE LET object == r.objects[paths[i]]
         IN xlock_finish_build(r, paths, i + 1,
                IF object # NoItem THEN <<object>> \o results ELSE results)

\* faulty variant: the list built by prepending is not reversed
service_xlock_finish_keeps_prepend_order(r, want) ==
    LET r1 == [service_xlock_paths_finish(r, want)
                   EXCEPT !.finished = TRUE, !.wantList = want]
    IN IF r1.count > 0 /\ want
       THEN [r1 EXCEPT !.listSet = TRUE,
                       !.outList = xlock_finish_build(r1, r1.outPaths, 1, <<>>)]
       ELSE r1

\* service_xlock_finish, behind secret_service_lock_finish and
\* secret_service_unlock_finish; want: the caller gave a location for the list
service_xlock_finish(r, want) ==
    LET r1 == [service_xlock_paths_finish(r, want)
                   EXCEPT !.finished = TRUE, !.wantList = want]
    IN IF r1.count > 0 /\ want
       THEN [r1 EXCEPT !.listSet = TRUE,
                       !.outList = Reverse(xlock_finish_build(r1, r1.outPaths, 1, <<>>))]
       ELSE r1

XlockFinish ==
    /\ ~crashed
    /\ xlock.completions > 0
    /\ ~xlock.finished
    /\ \E want \in BOOLEAN : xlock' = service_xlock_finish(xlock, want)
    /\ UNCHANGED <<registry, crashed, replyBound, search, get, lookup,
                   remove, store, sync, alias, setalias>>

NextXlock ==
    \/ SecretServiceXlock
    \/ CancelXlock
    \/ OnXlockCalled
    \/ OnXlockPrompted
    \/ XlockFinish

(***************************************************************************)
(* The ReadAlias chain: ReadClosure and its res (async).                   *)
(***************************************************************************)
Aliases == {"default", "session"}

NewAlias ==
    [ started     |-> FALSE,
      form        |-> "none",      \* none, async, sync
      cancelled   |-> FALSE,
      call        |-> "none",      \* none, path, collection, done
      calls       |-> <<>>,        \* remote calls issued: <<method, args>>
      collection  |-> NoItem,      \* read->collection
      error       |-> NoError,
      completions |-> 0,
      refs        |-> 0,           \* references held on res
      released    |-> 0,           \* times the closure was freed
      \* history, read by the properties only
      resolved    |-> FALSE,       \* the alias resolution succeeded
      path        |-> "none",      \* the collection path it gave, if any
      \* what secret_service_read_alias_finish (or _sync) handed out
      finished    |-> FALSE,
      outCollection |-> NoItem,
      outError    |-> NoError ]

\* _secret_service_find_collection_instance: the instance the service holds
find_collection_instance(path) ==
    IF path \in registry THEN Registered(path) ELSE NoItem

\* secret_collection_new_finish of a load that succeeded: a new proxy
secret_collection_new_finish(path) == <<path, 1, 1>>

\* secret_service_read_alias: closure made, alias resolution started
secret_service_read_alias(r, name) ==
    unref(ref(new_res([r EXCEPT !.started = TRUE, !.form = "async", !.call = "path",
              !.calls = Append(@, <<"ReadAlias", <<name>>>>)])))

SecretServiceReadAlias ==
    /\ ~crashed
    /\ ~alias.started
    /\ \E name \in Aliases : alias' = secret_service_read_alias(alias, name)
    /\ UNCHANGED <<registry, crashed, replyBound, search, get, lookup,
                   remove, store, sync, xlock, setalias>>

CancelReadAlias ==
    /\ ~crashed
    /\ alias.call \in {"path", "collection"}
    /\ ~alias.cancelled
    /\ alias' = [alias EXCEPT !.cancelled = TRUE]
    /\ UNCHANGED <<registry, crashed, replyBound, search, get, lookup,
                   remove, store, sync, xlock, setalias>>

\* faulty variant: an alias with no collection fails the chain
on_read_alias_path_absent_fails(r, err, path) ==
    LET r1 == [r EXCEPT !.resolved = (err = NoError), !.path = path]
        col == find_collection_instance(path)
    IN IF err # NoError
       THEN complete(take_error([r1 EXCEPT !.call = "done"], err))
       ELSE IF path = "none"
       THEN complete(take_error([r1 EXCEPT !.call = "done"], Failed(3)))
       ELSE IF col # NoItem
       THEN complete([r1 EXCEPT !.call = "done", !.collection = col])
       ELSE [r1 EXCEPT !.call = "collection",
                       !.calls = Append(@, <<"LoadCollection", <<path>>>>)]

\* faulty variant: the collection is loaded whatever the service holds
on_read_alias_path_always_loads(r, err, path) ==
    LET r1 == [r EXCEPT !.resolved = (err = NoError), !.path = path]
    IN IF err # NoError
       THEN complete(take_error([r1 EXCEPT !.call = "done"], err))
       ELSE IF path = "none"
       THEN complete([r1 EXCEPT !.call = "done"])
       ELSE [r1 EXCEPT !.call = "collection",
                       !.calls = Append(@, <<"LoadCollection", <<path>>>>)]

\* on_read_alias_path: err and path are what
\* secret_service_read_alias_path_finish gave
on_read_alias_path(r, err, path) ==
    LET r1 == [r EXCEPT !.resolved = (err = NoError), !.path = path]
        col == find_collection_instance(path)
    IN unref(IF err # NoError
       THEN complete(take_error([r1 EXCEPT !.call = "done"], err))
       ELSE IF path = "none"
       THEN complete([r1 EXCEPT !.call = "done"])
       ELSE IF col # NoItem
       THEN complete([r1 EXCEPT !.call = "done", !.collection = col])
       ELSE ref([r1 EXCEPT !.call = "collection",
                       !.calls = Append(@, <<"LoadCollection", <<path>>>>)]))

OnReadAliasPath ==
    /\ ~crashed
    /\ alias.call = "path"
    /\ \/ /\ ~alias.cancelled
          /\ \E path \in Paths \cup {"none"} :
                 alias' = on_read_alias_path(alias, NoError, path)
       \/ alias' = on_read_alias_path(
              alias, IF alias.cancelled THEN Cancelled ELSE Failed(0), "none")
    /\ UNCHANGED <<registry, crashed, replyBound, search, get, lookup,
                   remove, store, sync, xlock, setalias>>

\* on_read_alias_collection: collection and err are what
\* secret_collection_new_finish gave
on_read_alias_collection(r, collection, err) ==
    LET r1 == [r EXCEPT !.call = "done", !.collection = collection]
    IN unref(complete(IF err # NoError THEN take_error(r1, err) ELSE r1))

OnReadAliasCollection ==
    /\ ~crashed
    /\ alias.call = "collection"
    /\ \/ /\ ~alias.cancelled
          /\ alias' = on_read_alias_collection(
                 alias, secret_collection_new_finish(alias.path), NoError)
       \/ alias' = on_read_alias_collection(
              alias, NoItem, IF alias.cancelled THEN Cancelled ELSE Failed(1))
    /\ UNCHANGED <<registry, crashed, replyBound, search, get, lookup,
                   remove, store, sync, xlock, setalias>>

\* secret_service_read_alias_finish: the error, or read->collection
read_alias_finish(r) ==
    IF r.error # NoError
    THEN [r EXCEPT !.finished = TRUE, !.outError = r.error]
    ELSE [r EXCEPT !.finished = TRUE, !.outCollection = r.collection]

ReadAliasFinish ==
    /\ ~crashed
    /\ alias.completions > 0
    /\ ~alias.finished
    /\ alias' = read_alias_finish(alias)
    /\ UNCHANGED <<registry, crashed, replyBound, search, get, lookup,
                   remove, store, sync, xlock, setalias>>

\* secret_service_read_alias_sync, a sequence of blocking calls: err and
\* path are what secret_service_read_alias_path_sync gave, loadErr what
\* secret_collection_new_sync gives when it is called
read_alias_sync(r, name, err, path, loadErr) ==
    LET r1 == [r EXCEPT !.started = TRUE, !.form = "sync", !.call = "done",
                        !.finished = TRUE,
                        !.calls = Append(@, <<"ReadAlias", <<name>>>>),
                        !.resolved = (err = NoError), !.path = path]
        col == find_collection_instance(path)
    IN IF path = "none"
       THEN [r1 EXCEPT !.outError = err]
       ELSE IF col # NoItem
       THEN [r1 EXCEPT !.outCollection = col]
       ELSE [r1 EXCEPT !.calls = Append(@, <<"LoadCollection", <<path>>>>),
                       !.outCollection = IF loadErr = NoError
                                         THEN secret_collection_new_finish(path)
                                         ELSE NoItem,
                       !.outError = loadErr]

SecretServiceReadAliasSync ==
    /\ ~crashed
    /\ ~alias.started
    /\ \E name \in Aliases :
           \/ \E path \in Paths \cup {"none"}, loadErr \in {NoError, Failed(1)} :
                  alias' = read_alias_sync(alias, name, NoError, path, loadErr)
           \/ alias' = read_alias_sync(alias, name, Failed(0), "none", NoError)
    /\ UNCHANGED <<registry, crashed, replyBound, search, get, lookup,
                   remove, store, sync, xlock, setalias>>

NextReadAlias ==
    \/ SecretServiceReadAlias
    \/ CancelReadAlias
    \/ OnReadAliasPath
    \/ OnReadAliasCollection
    \/ ReadAliasFinish
    \/ SecretServiceReadAliasSync

(***************************************************************************)
(* The SetAlias chain.  secret_service_set_alias hands the caller's        *)
(* callback to secret_service_set_alias_path, whose res is the chain's.    *)
(***************************************************************************)
NewSetAlias ==
    [ started     |-> FALSE,
      cancelled   |-> FALSE,
      call        |-> "none",      \* none, set, done
      calls       |-> <<>>,        \* remote calls issued: <<method, args>>
      error       |-> NoError,
      completions |-> 0,
      \* what secret_service_set_alias_finish handed out
      finished    |-> FALSE,
      ret         |-> FALSE,
      outError    |-> NoError ]

\* secret_service_set_alias: the path of the collection, or none, is given
\* to secret_service_set_alias_path
secret_service_set_alias(r, name, collection) ==
    [r EXCEPT !.started = TRUE, !.call = "set",
              !.calls = Append(@, <<"SetAlias",
                  <<name, IF collection = NoItem THEN "none"
                          ELSE PathOf(collection)>>>>)]

SecretServiceSetAlias ==
    /\ ~crashed
    /\ ~setalias.started
    /\ \E name \in Aliases, collection \in {NoItem, Registered("a")} :
           setalias' = secret_service_set_alias(setalias, name, collection)
    /\ UNCHANGED <<registry, crashed, replyBound, search, get, lookup,
                   remove, store, sync, xlock, alias>>

CancelSetAlias ==
    /\ ~crashed
    /\ setalias.call = "set"
    /\ ~setalias.cancelled
    /\ setalias' = [setalias EXCEPT !.cancelled = TRUE]
    /\ UNCHANGED <<registry, crashed, replyBound, search, get, lookup,
                   remove, store, sync, xlock, alias>>

\* the assignment is over and runs the callback: err is what
\* secret_service_set_alias_path_finish will give
set_alias_path_done(r, err) ==
    LET r1 == [r EXCEPT !.call = "done"]
    IN complete(IF err # NoError THEN take_error(r1, err) ELSE r1)

OnSetAliasDone ==
    /\ ~crashed
    /\ setalias.call = "set"
    /\ \/ ~setalias.cancelled /\ setalias' = set_alias_path_done(setalias, NoError)
       \/ setalias' = set_alias_path_done(
              setalias, IF setalias.cancelled THEN Cancelled ELSE Failed(0))
    /\ UNCHANGED <<registry, crashed, replyBound, search, get, lookup,
                   remove, store, sync, xlock, alias>>

\* secret_service_set_alias_finish: what
\* secret_service_set_alias_path_finish gives
set_alias_finish(r) ==
    IF r.error # NoError
    THEN [r EXCEPT !.finished = TRUE, !.ret = FALSE, !.outError = r.error]
    ELSE [r EXCEPT !.finished = TRUE, !.ret = TRUE]

SetAliasFinish ==
    /\ ~crashed
    /\ setalias.completions > 0
    /\ ~setalias.finished
    /\ setalias' = set_alias_finish(setalias)
    /\ UNCHANGED <<registry, crashed, replyBound, search, get, lookup,
                   remove, store, sync, xlock, alias>>

(***************************************************************************)
(* The blocking forms of GetSecrets, Lock / Unlock and SetAlias: no        *)
(* validation precedes the SecretSync.                                     *)
(***************************************************************************)
\* secret_service_get_secrets_sync up to g_main_loop_run
SecretServiceGetSecretsSync ==
    /\ ~crashed
    /\ Quiet
    /\ \E items \in SeqsUpTo(Proxies, MaxItems), ambient \in Ambients :
           /\ sync' = sync_run(called_in(sync, ambient), "get")
           /\ get' = unref(ref(new_res(
                         [get_secrets_collect(get, items, 1)
                              EXCEPT !.started = TRUE, !.input = items,
                                     !.call = "session"])))
    /\ UNCHANGED <<registry, crashed, replyBound, search, lookup, remove,
                   store, xlock, alias, setalias>>

\* faulty variant: the loop is not run, finish is called at once
GetSecretsSyncReturn_without_waiting ==
    /\ ~crashed
    /\ sync.op = "get" /\ sync.stage = "loop"
    /\ get' = get_secrets_finish(get)
    /\ sync' = [sync_pop(sync, get'.outError) EXCEPT !.retTable = get'.outTable,
                                                     !.retBool = get'.ret]
    /\ UNCHANGED <<registry, crashed, replyBound, search, lookup, remove,
                   store, xlock, alias, setalias>>

\* secret_service_get_secrets_sync once the loop was quit
GetSecretsSyncReturn ==
    /\ ~crashed
    /\ sync.op = "get" /\ sync.stage = "loop"
    /\ get.completions > 0
    /\ get' = get_secrets_finish(get)
    /\ sync' = [sync_pop(sync, get'.outError) EXCEPT !.retTable = get'.outTable,
                                                     !.retBool = get'.ret]
    /\ UNCHANGED <<registry, crashed, replyBound, search, lookup, remove,
                   store, xlock, alias, setalias>>

\* secret_service_lock_sync and secret_service_unlock_sync up to
\* g_main_loop_run
SecretServiceXlockSync ==
    /\ ~crashed
    /\ Quiet
    /\ \E method \in {"Lock", "Unlock"}, ambient \in Ambients :
       \E objects \in SeqsUpTo(Proxies, MaxItems) :
           /\ sync' = sync_run(called_in(sync, ambient), "xlock")
           /\ xlock' = service_xlock_async(xlock, method, objects)
    /\ UNCHANGED <<registry, crashed, replyBound, search, get, lookup,
                   remove, store, alias, setalias>>

\* secret_service_lock_sync and secret_service_unlock_sync once the loop
\* was quit; want: the caller gave a location for the list
XlockSyncReturn ==
    /\ ~crashed
    /\ sync.op = "xlock" /\ sync.stage = "loop"
    /\ xlock.completions > 0
    /\ \E want \in BOOLEAN :
           /\ xlock' = service_xlock_finish(xlock, want)
           /\ sync' = [sync_pop(sync, xlock'.outError)
                           EXCEPT !.retCount = xlock'.count,
                                  !.retList = xlock'.outList]
    /\ UNCHANGED <<registry, crashed, replyBound, search, get, lookup,
                   remove, store, alias, setalias>>

\* secret_service_set_alias_sync up to g_main_loop_run
SecretServiceSetAliasSync ==
    /\ ~crashed
    /\ Quiet
    /\ \E name \in Aliases, collection \in {NoItem, Registered("a")},
          ambient \in Ambients :
           /\ sync' = sync_run(called_in(sync, ambient), "setalias")
           /\ setalias' = secret_service_set_alias(setalias, name, collection)
    /\ UNCHANGED <<registry, crashed, replyBound, search, get, lookup,
                   remove, store, xlock, alias>>

\* secret_service_set_alias_sync once the loop was quit
SetAliasSyncReturn ==
    /\ ~crashed
    /\ sync.op = "setalias" /\ sync.stage = "loop"
    /\ setalias.completions > 0
    /\ setalias' = set_alias_finish(setalias)
    /\ sync' = [sync_pop(sync, setalias'.outError) EXCEPT !.retBool = setalias'.ret]
    /\ UNCHANGED <<registry, crashed, replyBound, search, get, lookup,
                   remove, store, xlock, alias>>

\* no call was made yet, not even one that failed validation
Fresh ==
    Quiet /\ ~store.rejected /\ ~lookup.rejected /\ ~remove.rejected

\* the entry points of the chains that have a blocking form run on a
\* SecretSync (Store, Lookup, Remove and SetAlias in both forms), and what
\* follows them; a handler runs when the context its call answers in is the
\* one whose loop runs
NextSync ==
    \/ Quiet /\ SecretServiceStore
    \/ Quiet /\ SecretServiceLookup
    \/ Quiet /\ SecretServiceRemove
    \/ Fresh /\ SecretServiceSetAlias
    \/ SecretServiceStoreSync
    \/ SecretServiceLookupSync
    \/ SecretServiceRemoveSync
    \/ Fresh /\ SecretServiceSetAliasSync
    \/ Fresh /\ SecretServiceGetSecretsSync
    \/ Fresh /\ SecretServiceXlockSync
    \/ CancelStore
    \/ Dispatching("store") /\ OnStoreCreated
    \/ CancelLookup
    \/ Dispatching("lookup") /\ OnLookupSearched
    \/ Dispatching("lookup") /\ OnLookupUnlocked
    \/ Dispatching("lookup") /\ OnLookupGetSecret
    \/ CancelRemove
    \/ Dispatching("remove") /\ OnSearchDeletePassword
    \/ Dispatching("remove") /\ OnDeletePasswordComplete
    \/ CancelSetAlias
    \/ Dispatching("setalias") /\ OnSetAliasDone
    \/ CancelGet
    \/ Dispatching("get") /\ OnGetSecretsSession
    \/ Dispatching("get") /\ OnGetSecretsReply
    \/ Dispatching("get") /\ OnGetSecretsError
    \/ CancelXlock
    \/ Dispatching("xlock") /\ OnXlockCalled
    \/ Dispatching("xlock") /\ OnXlockPrompted
    \/ sync.stage = "none" /\ StoreFinish
    \/ sync.stage = "none" /\ LookupFinish
    \/ sync.stage = "none" /\ RemoveFinish
    \/ sync.stage = "none" /\ SetAliasFinish
    \/ StoreSyncReturn
    \/ LookupSyncReturn
    \/ RemoveSyncReturn
    \/ SetAliasSyncReturn
    \/ GetSecretsSyncReturn
    \/ XlockSyncReturn

\* a blocking GetSecrets, Lookup or Remove called while a ReadAlias chain
\* started before it is waiting for its first answer
OuterWaiting == alias.call = "path" /\ ~alias.cancelled
NextIsolation ==
    \/ sync.stage = "none" /\ SecretServiceReadAlias
    \/ CancelReadAlias
    \/ Dispatching("alias") /\ OnReadAliasPath
    \/ Dispatching("alias") /\ OnReadAliasCollection
    \/ Dispatching("alias") /\ ReadAliasFinish
    \/ OuterWaiting /\ SecretServiceGetSecretsSync
    \/ OuterWaiting /\ SecretServiceLookupSync
    \/ OuterWaiting /\ SecretServiceRemoveSync
    \/ CancelGet
    \/ Dispatching("get") /\ OnGetSecretsSession
    \/ Dispatching("get") /\ OnGetSecretsReply
    \/ Dispatching("get") /\ OnGetSecretsError
    \/ CancelLookup
    \/ Dispatching("lookup") /\ OnLookupSearched
    \/ Dispatching("lookup") /\ OnLookupUnlocked
    \/ Dispatching("lookup") /\ OnLookupGetSecret
    \/ CancelRemove
    \/ Dispatching("remove") /\ OnSearchDeletePassword
    \/ Dispatching("remove") /\ OnDeletePasswordComplete
    \/ GetSecretsSyncReturn
    \/ LookupSyncReturn
    \/ RemoveSyncReturn

InitCommon ==
    /\ crashed = FALSE
    /\ get = NewGet
    /\ lookup = NewLookup
    /\ remove = NewRemove
    /\ store = NewStore
    /\ sync = NewSync
    /\ xlock = NewXlock
    /\ alias = NewAlias
    /\ setalias = NewSetAlias

\* one Search chain
InitSearch ==
    /\ InitCommon
    /\ registry \in SUBSET Paths
    /\ replyBound = MaxLen
    /\ search = [c \in {1} |-> NewSearch]
NextSearch == SearchStep(1)
SpecSearch == InitSearch /\ [][NextSearch]_vars

\* one GetSecrets chain
InitGetSecrets ==
    /\ InitCommon
    /\ registry = {}
    /\ replyBound = MaxLen
    /\ search = [c \in {1} |-> NewSearch]
SpecGetSecrets == InitGetSecrets /\ [][NextGetSecrets]_vars

\* one Lookup chain
InitLookup ==
    /\ InitCommon
    /\ registry = {}
    /\ replyBound = MaxLen
    /\ search = [c \in {1} |-> NewSearch]
SpecLookup == InitLookup /\ [][NextLookup]_vars

\* two Search chains on one service
InitShared ==
    /\ InitCommon
    /\ registry \in SUBSET Paths
    /\ replyBound = MaxLenShared
    /\ search = [c \in Chains |-> NewSearch]
NextShared == \E c \in Chains : SearchStep(c)
SpecShared == InitShared /\ [][NextShared]_vars

\* one Remove chain
InitRemove ==
    /\ InitCommon
    /\ registry = {}
    /\ replyBound = MaxLen
    /\ search = [c \in {1} |-> NewSearch]
SpecRemove == InitRemove /\ [][NextRemove]_vars

\* one call of a chain that has a blocking form, in the forms NextSync lists
InitSync ==
    /\ InitCommon
    /\ registry = {}
    /\ replyBound = MaxLenShared
    /\ search = [c \in {1} |-> NewSearch]
SpecSync == InitSync /\ [][NextSync]_vars

\* one Lock or Unlock chain
InitXlock ==
    /\ InitCommon
    /\ registry = {}
    /\ replyBound = MaxLen
    /\ search = [c \in {1} |-> NewSearch]
SpecXlock == InitXlock /\ [][NextXlock]_vars

\* one ReadAlias call, in either form
InitReadAlias ==
    /\ InitCommon
    /\ registry \in SUBSET Paths
    /\ replyBound = MaxLen
    /\ search = [c \in {1} |-> NewSearch]
SpecReadAlias == InitReadAlias /\ [][NextReadAlias]_vars

\* one chain of GetSecrets, Lock / Unlock, Lookup, Remove or ReadAlias
Begun ==
    [ get    |-> get.started,
      xlock  |-> xlock.started,
      lookup |-> lookup.started \/ lookup.rejected,
      remove |-> remove.started \/ remove.rejected,
      alias  |-> alias.started ]
Alone(n) == \A m \in DOMAIN Begun \ {n} : ~Begun[m]
InitLinear ==
    /\ InitCommon
    /\ registry \in {{}, {"a"}}
    /\ replyBound = MaxLen
    /\ search = [c \in {1} |-> NewSearch]
NextLinear ==
    \/ Alone("get") /\ NextGetSecrets
    \/ Alone("xlock") /\ NextXlock
    \/ Alone("lookup") /\ NextLookup
    \/ Alone("remove") /\ NextRemove
    \/ Alone("alias") /\ NextReadAlias
SpecLinear == InitLinear /\ [][NextLinear]_vars

\* a Lookup chain and a Remove chain on one service
InitLookupRemove ==
    /\ InitCommon
    /\ registry = {}
    /\ replyBound = MaxLenShared
    /\ search = [c \in {1} |-> NewSearch]
NextLookupRemove == NextLookup \/ NextRemove
SpecLookupRemove == InitLookupRemove /\ [][NextLookupRemove]_vars

\* a blocking call made while a ReadAlias chain is outstanding
InitIsolation ==
    /\ InitCommon
    /\ registry = {}
    /\ replyBound = MaxLenShared
    /\ search = [c \in {1} |-> NewSearch]
SpecIsolation == InitIsolation /\ [][NextIsolation]_vars

\* one chain of any of the six asynchronous operations
InitChains ==
    /\ InitCommon
    /\ registry \in {{}, {"a"}}
    /\ replyBound = MaxLen
    /\ search = [c \in {1} |-> NewSearch]
NextChains ==
    \/ ~search[1].started /\ NextLinear
    \/ (\A n \in DOMAIN Begun : ~Begun[n]) /\ SearchStep(1)
SpecChains == InitChains /\ [][NextChains]_vars

\* a reply to a call of a chain is delivered and its handler run
Answered ==
    \/ OnSearchPathsOk(1) \/ OnSearchPathsFailed(1)
    \/ OnSearchLoadedItem(1) \/ OnSearchLoadedError(1)
    \/ OnGetSecretsSession \/ OnGetSecretsReply \/ OnGetSecretsError
    \/ OnXlockCalled \/ OnXlockPrompted
    \/ OnLookupSearched \/ OnLookupUnlocked \/ OnLookupGetSecret
    \/ OnSearchDeletePassword \/ OnDeletePasswordComplete
    \/ OnReadAliasPath \/ OnReadAliasCollection

\* the chains of SpecChains when every call issued is answered and the main
\* loop dispatches the answer
SpecChainsLive == SpecChains /\ WF_vars(Answered)

(***************************************************************************)
(* Properties of the Search chain.                                         *)
(***************************************************************************)
PathsOf(items) == [i \in 1..Len(items) |-> PathOf(items[i])]
LoadsIn(r, st) == {i \in 1..Len(r.loads) : r.loads[i].st = st}
ReplyLen(r) == Len(r.unlocked) + Len(r.locked)

\* C1: once SearchItems has succeeded, the callback has run exactly once
\* when no load is outstanding, and not at all while one is
C1_CompletesOnce ==
    \A c \in DOMAIN search :
        (search[c].call = "done" /\ ~search[c].searchFailed)
            => search[c].completions =
                   (IF PendingLoads(search[c]) = {} THEN 1 ELSE 0)

\* C1: a reply of three paths, one held by the service, one loaded and one
\* whose load failed, all replies in
C1_Witness ==
    \E c \in DOMAIN search :
        /\ ReplyLen(search[c]) = 3
        /\ \E p \in registry : search[c].items[p] = Registered(p)
        /\ LoadsIn(search[c], "item") # {}
        /\ LoadsIn(search[c], "error") # {}
        /\ PendingLoads(search[c]) = {}
        /\ search[c].completions = 1

\* C2: when every load succeeded, finish hands out one handle per path of
\* the SearchItems reply, in the reply's order, in both lists
C2_OrderOfSearch ==
    \A c \in DOMAIN search :
        (search[c].finished /\ search[c].ret)
            => /\ PathsOf(search[c].outUnlocked) = search[c].unlocked
               /\ PathsOf(search[c].outLocked) = search[c].locked

\* the paths of a list that have an item in the result map
FoundIn(r, paths) ==
    LET Has(p) == r.items[p] # NoItem IN SelectSeq(paths, Has)

\* C3, as claimed: with some loads failed and some succeeded, finish hands
\* out the handles of the paths that were loaded, in the reply's order
C3_PartialResults ==
    \A c \in DOMAIN search :
        (search[c].finished /\ LoadsIn(search[c], "error") # {}
                            /\ LoadsIn(search[c], "item") # {})
            => /\ search[c].ret
               /\ PathsOf(search[c].outUnlocked) = FoundIn(search[c], search[c].unlocked)
               /\ PathsOf(search[c].outLocked) = FoundIn(search[c], search[c].locked)

\* C3, amended: with some loads failed and some succeeded, finish returns
\* FALSE with the error of a failed load and hands out no handle
C3_PartialFailureFails ==
    \A c \in DOMAIN search :
        (search[c].finished /\ LoadsIn(search[c], "error") # {}
                            /\ LoadsIn(search[c], "item") # {})
            => /\ ~search[c].ret
               /\ \/ search[c].outError = Cancelled
                  \/ \E i \in LoadsIn(search[c], "error") :
                         search[c].outError = Failed(i)
               /\ search[c].outUnlocked = <<>>
               /\ search[c].outLocked = <<>>

C3_Witness ==
    \E c \in DOMAIN search :
        /\ search[c].finished
        /\ LoadsIn(search[c], "error") # {}
        /\ LoadsIn(search[c], "item") # {}
        /\ ~search[c].ret

\* C4: with two or more failed loads, finish gives the error of the failure
\* that arrived first
C4_FirstErrorWins ==
    \A c \in DOMAIN search :
        (search[c].finished /\ search[c].loadErrors >= 2)
            => search[c].outError = search[c].firstError

\* C5: when SearchItems fails, no load is issued, the unset path lists are
\* not read and the callback runs exactly once, with that error
C5_UpstreamAbort ==
    \A c \in DOMAIN search :
        search[c].searchFailed
            => /\ ~search[c].readUnset
               /\ search[c].loads = <<>>
               /\ search[c].completions = 1
               /\ search[c].error = search[c].firstError

\* C6: after the token is triggered with loads outstanding, no load is
\* issued; when the last reply is in, the pending count is zero, the callback
\* has run exactly once (and not before) and the stored error, which finish
\* returns with FALSE, is the cancellation
C6_CancelMidFanout ==
    \A c \in DOMAIN search :
        search[c].cancelMid
            => /\ Len(search[c].loads) = search[c].loadsAtCancel
               /\ IF PendingLoads(search[c]) = {}
                  THEN /\ search[c].loading = 0
                       /\ search[c].completions = 1
                       /\ search[c].error = Cancelled
                  ELSE /\ search[c].loading = Cardinality(PendingLoads(search[c]))
                       /\ search[c].completions = 0
               /\ search[c].finished
                      => ~search[c].ret /\ search[c].outError = Cancelled

\* C6: a load failed, then the token was triggered with a load outstanding,
\* whose reply is in, and finish was called
C6_Witness ==
    \E c \in DOMAIN search :
        /\ search[c].cancelMid
        /\ search[c].firstError # NoError
        /\ search[c].firstError # Cancelled
        /\ PendingLoads(search[c]) = {}
        /\ search[c].finished

\* the handles a chain handed out for path p
Returned(r, p) ==
    {r.outUnlocked[i] : i \in {j \in 1..Len(r.outUnlocked) : PathOf(r.outUnlocked[j]) = p}}
    \cup {r.outLocked[i] : i \in {j \in 1..Len(r.outLocked) : PathOf(r.outLocked[j]) = p}}

\* C7: two chains that each load the same unregistered path hand out the
\* same handle for it
C7_OneHandlePerPath ==
    \A c \in DOMAIN search, d \in DOMAIN search, p \in Paths :
        (search[c].finished /\ search[d].finished)
            => \A h \in Returned(search[c], p), k \in Returned(search[d], p) : h = k

(***************************************************************************)
(* Properties of the GetSecrets chain.                                     *)
(***************************************************************************)
Keys(table) == {e[1] : e \in table}
InputItems(r) == {r.input[i] : i \in 1..Len(r.input)}
InputPaths(r) == {PathOf(h) : h \in InputItems(r)}

\* the item given last for path p
LastGiven(r, p) ==
    LET at == {i \in 1..Len(r.input) : PathOf(r.input[i]) = p}
    IN r.input[CHOOSE i \in at : \A j \in at : j <= i]

\* C8, as claimed: a reply over a subset of the input paths makes finish
\* return a table keyed by exactly the items given whose path is in the reply
C8_KeysAreInputInReply ==
    (get.finished /\ get.replied /\ get.outPaths \subseteq InputPaths(get))
        => /\ get.ret
           /\ get.outError = NoError
           /\ Keys(get.outTable) = {h \in InputItems(get) : PathOf(h) \in get.outPaths}

\* C8, amended: finish succeeds with a table holding, for each path of the
\* reply whose secret decodes, the item given last for that path, with that
\* secret, and nothing else
C8_PartialReply ==
    (get.finished /\ get.replied /\ get.outPaths \subseteq InputPaths(get))
        => /\ get.ret
           /\ get.outError = NoError
           /\ get.outTable =
                  {<<LastGiven(get, p), SecretOf(p)>> : p \in get.outPaths \ get.outBad}

\* C8: two items given, the reply names the path of one of them only
C8_Witness ==
    /\ get.finished /\ get.replied /\ get.ret
    /\ Cardinality({PathOf(h) : h \in InputItems(get)}) = 2
    /\ Cardinality(get.outPaths) = 1
    /\ get.outBad = {}
    /\ Cardinality(get.outTable) = 1

(***************************************************************************)
(* Properties of the Lookup chain.                                         *)
(***************************************************************************)
\* C9: the search found locked paths only and the Unlock call gave a path
\* sequence: once the callback has run, the calls issued are the search, one
\* Unlock of the first locked path alone and one fetch of the first path
\* Unlock gave, in this order, and finish hands out what that fetch gave
C9_UnlockThenFetch ==
    (lookup.searched /\ lookup.unlocked = <<>> /\ lookup.locked # <<>>)
        => /\ Len(lookup.calls) >= 2
           /\ lookup.calls[2] = <<"Unlock", <<lookup.locked[1]>>>>
           /\ (lookup.unlockOk /\ lookup.unlockPaths # <<>>)
                  => /\ lookup.calls = << <<"SearchItems", <<>>>>,
                                          <<"Unlock", <<lookup.locked[1]>>>>,
                                          <<"GetSecret", <<lookup.unlockPaths[1]>>>> >>
                     /\ lookup.completions = (IF lookup.fetched THEN 1 ELSE 0)
                     /\ (lookup.finished /\ lookup.outError = NoError)
                            => lookup.outValue = lookup.fetchValue
                     /\ (lookup.finished /\ lookup.outError # NoError)
                            => lookup.outValue = NoValue /\ lookup.fetchValue = NoValue

\* C9: Unlock gave a path other than the one sent, its secret was fetched
\* and handed out
C9_Witness ==
    /\ lookup.searched /\ lookup.unlocked = <<>> /\ Len(lookup.locked) >= 2
    /\ lookup.unlockOk /\ Len(lookup.unlockPaths) = 2
    /\ lookup.unlockPaths[1] # lookup.locked[1]
    /\ lookup.finished
    /\ lookup.outValue = SecretOf(lookup.unlockPaths[1])

\* C10: the search found an unlocked path: the calls issued are the search
\* and one fetch of the first unlocked path, and never an Unlock
C10_FetchFirstUnlocked ==
    (lookup.searched /\ lookup.unlocked # <<>>)
        => lookup.calls = << <<"SearchItems", <<>>>>,
                             <<"GetSecret", <<lookup.unlocked[1]>>>> >>

\* C10: two unlocked paths and a locked one, the chain finished
C10_Witness ==
    /\ lookup.searched /\ Len(lookup.unlocked) = 2 /\ lookup.locked # <<>>
    /\ lookup.unlocked[1] # lookup.unlocked[2]
    /\ lookup.finished
    /\ lookup.outValue = SecretOf(lookup.unlocked[1])

\* C11: when the search found no path at all, or the Unlock call gave an
\* empty sequence (prompt dismissed), the chain completes once without a
\* fetch of a secret, and finish hands out no value and no error
C11_AbsenceIsNoError ==
    /\ (lookup.searched /\ lookup.unlocked = <<>> /\ lookup.locked = <<>>)
           => /\ lookup.calls = << <<"SearchItems", <<>>>> >>
              /\ lookup.completions = 1
              /\ lookup.finished
                     => lookup.outValue = NoValue /\ lookup.outError = NoError
    /\ (lookup.unlockOk /\ lookup.unlockPaths = <<>>)
           => /\ lookup.calls = << <<"SearchItems", <<>>>>,
                                   <<"Unlock", <<lookup.locked[1]>>>> >>
              /\ lookup.completions = 1
              /\ lookup.finished
                     => lookup.outValue = NoValue /\ lookup.outError = NoError

\* C11: two locked paths found, Unlock gave no path, finish was called
C11_Witness ==
    /\ lookup.searched /\ lookup.unlocked = <<>> /\ Len(lookup.locked) = 2
    /\ lookup.unlockOk /\ lookup.unlockPaths = <<>>
    /\ lookup.finished
    /\ lookup.outValue = NoValue /\ lookup.outError = NoError

(***************************************************************************)
(* Properties of the Remove chain.                                         *)
(***************************************************************************)
\* C12: when the search found no path at all, the chain issues no delete
\* call and completes once, and finish returns FALSE with no error
C12_NoMatchNoDelete ==
    (remove.searched /\ remove.unlocked = <<>> /\ remove.locked = <<>>)
        => /\ remove.calls = << <<"SearchItems", <<>>>> >>
           /\ remove.completions = 1
           /\ remove.finished => ~remove.ret /\ remove.outError = NoError

\* C12: nothing found, finish was called
C12_Witness ==
    /\ remove.searched /\ remove.unlocked = <<>> /\ remove.locked = <<>>
    /\ remove.finished /\ ~remove.ret /\ remove.outError = NoError

\* C13: when the search found a path, the chain issues exactly one delete
\* call, for the first unlocked path if there is one and else for the first
\* locked path, completes once when that call is over, and finish returns
\* TRUE exactly when the call reported a deletion and no error
C13_DeleteFirstMatch ==
    (remove.searched /\ (remove.unlocked # <<>> \/ remove.locked # <<>>))
        => LET target == IF remove.unlocked # <<>>
                         THEN remove.unlocked[1] ELSE remove.locked[1]
           IN /\ remove.calls = << <<"SearchItems", <<>>>>,
                                   <<"Delete", <<target>>>> >>
              /\ remove.completions = (IF remove.deleteDone THEN 1 ELSE 0)
              /\ remove.finished
                     => (remove.ret <=> remove.deleteGave = <<TRUE, NoError>>)

\* C13: unlocked and locked paths found, the first of each different, the
\* deletion reported and handed out
C13_Witness ==
    /\ remove.searched /\ Len(remove.unlocked) = 2 /\ remove.locked # <<>>
    /\ remove.unlocked[1] # remove.locked[1]
    /\ remove.unlocked[1] # remove.unlocked[2]
    /\ remove.finished /\ remove.ret

(***************************************************************************)
(* Properties of the entry points.                                         *)
(***************************************************************************)
\* C14: when the attributes fail validation, Store, Lookup and Remove issue
\* no remote call: the async form returns and the callback never runs, the
\* blocking form returns its failure value with no context pushed and no
\* loop run
C14_ValidationShortCircuit ==
    /\ store.rejected
           => ~store.started /\ store.calls = <<>> /\ store.completions = 0
    /\ lookup.rejected
           => ~lookup.started /\ lookup.calls = <<>> /\ lookup.completions = 0
    /\ remove.rejected
           => ~remove.started /\ remove.calls = <<>> /\ remove.completions = 0
    /\ sync.rejected
           => /\ sync.stage = "returned"
              /\ sync.pushes = 0 /\ sync.pops = 0 /\ sync.loopRuns = 0
              /\ ~sync.retBool /\ sync.retValue = NoValue
              /\ store.calls = <<>> /\ lookup.calls = <<>> /\ remove.calls = <<>>
              /\ store.completions = 0 /\ lookup.completions = 0
              /\ remove.completions = 0

\* C14: the async forms of Store and Lookup and the blocking form of Remove
\* were called with attributes that fail validation
C14_Witness ==
    /\ store.rejected /\ lookup.rejected
    /\ sync.rejected /\ sync.op = "remove" /\ sync.stage = "returned"

(***************************************************************************)
(* Properties of the Lock / Unlock chain.                                  *)
(***************************************************************************)
\* the final sequence of transitioned paths, in the closure or handed over
Transitioned(r) == IF r.handed THEN r.outPaths ELSE r.xlocked

Range(s) == {s[i] : i \in 1..Len(s)}

\* C15: when the reply names no prompt, the chain issues no prompt call and
\* completes at once, and the final sequence of transitioned paths is the
\* reply's, in its order
C15_NoPromptFinal ==
    (xlock.replied /\ ~xlock.replyPrompt)
        => /\ xlock.calls = << <<xlock.method, xlock.sent>> >>
           /\ xlock.completions = 1
           /\ Transitioned(xlock) = xlock.replyPaths
           /\ xlock.finished
                  => /\ xlock.count = Len(xlock.replyPaths)
                     /\ xlock.outError = NoError

\* C15: a reply of two different paths and no prompt, handed over by finish
C15_Witness ==
    /\ xlock.replied /\ ~xlock.replyPrompt
    /\ Len(xlock.replyPaths) = 2 /\ xlock.replyPaths[1] # xlock.replyPaths[2]
    /\ xlock.finished /\ xlock.handed
    /\ xlock.outPaths = xlock.replyPaths

\* C16: when the reply names a prompt, the final sequence of transitioned
\* paths is the one of the prompt's result; the paths of the reply itself
\* are not in it unless the prompt's result has them
C16_PromptResultFinal ==
    (xlock.replied /\ xlock.replyPrompt)
        => /\ xlock.promptGave = "none" => xlock.xlocked = <<>>
           /\ xlock.promptGave = "paths"
                  => /\ Transitioned(xlock) = xlock.promptPaths
                     /\ xlock.finished => xlock.count = Len(xlock.promptPaths)

\* C16: the reply listed a path and named a prompt, whose result has another
\* path only, handed over by finish
C16_Witness ==
    /\ xlock.replied /\ xlock.replyPrompt /\ xlock.replyPaths # <<>>
    /\ xlock.promptGave = "paths" /\ xlock.promptPaths # <<>>
    /\ Range(xlock.replyPaths) \cap Range(xlock.promptPaths) = {}
    /\ xlock.finished /\ xlock.handed
    /\ xlock.outPaths = xlock.promptPaths

\* C17: when the prompt is dismissed (no result, no error), the chain
\* completes once with no transitioned path, issues no call after the
\* prompt's, and finish reports count 0 and no error
C17_DismissedIsEmpty ==
    xlock.promptGave = "dismissed"
        => /\ Transitioned(xlock) = <<>>
           /\ xlock.completions = 1
           /\ xlock.calls = << <<xlock.method, xlock.sent>>, <<"Prompt", <<>>>> >>
           /\ xlock.finished => xlock.count = 0 /\ xlock.outError = NoError

\* C17: the reply listed a path and named a prompt, which was dismissed;
\* finish was called
C17_Witness ==
    /\ xlock.replyPaths # <<>>
    /\ xlock.promptGave = "dismissed"
    /\ xlock.finished /\ xlock.count = 0 /\ xlock.outError = NoError

\* the paths of the final sequence that are the path of an object given
MappedPaths(r) ==
    LET Given(p) == p \in InputPaths(r) IN SelectSeq(r.outPaths, Given)

\* C18, as claimed: on success with a sequence of transitioned paths that is
\* not empty, the list handed out holds, in the order of that sequence,
\* exactly the objects given whose path is in it
C18_ExactlyInputHandles ==
    (xlock.finished /\ xlock.wantList /\ xlock.count > 0)
        => /\ xlock.listSet
           /\ xlock.outError = NoError
           /\ PathsOf(xlock.outList) = MappedPaths(xlock)
           /\ Range(xlock.outList) =
                  {h \in InputItems(xlock) : PathOf(h) \in Range(xlock.outPaths)}

\* C18, amended: on success with a sequence of transitioned paths that is
\* not empty, the list handed out holds, in the order of that sequence, for
\* each of its paths that is the path of an object given, the object given
\* last for that path; nothing else is in it and no error is set
C18_FinishMapping ==
    (xlock.finished /\ xlock.wantList /\ xlock.count > 0)
        => /\ xlock.listSet
           /\ xlock.outError = NoError
           /\ xlock.outList = [i \in 1..Len(MappedPaths(xlock)) |->
                                  LastGiven(xlock, MappedPaths(xlock)[i])]

\* C18: two objects of different paths given, one of them transitioned
C18_Witness ==
    /\ xlock.finished /\ xlock.wantList
    /\ Len(xlock.input) = 2 /\ PathOf(xlock.input[1]) # PathOf(xlock.input[2])
    /\ Len(xlock.outPaths) = 1
    /\ xlock.outList = <<xlock.input[2]>>

(***************************************************************************)
(* Properties of the ReadAlias chain.                                      *)
(***************************************************************************)
LoadCalls(r) == {i \in 1..Len(r.calls) : r.calls[i][1] = "LoadCollection"}

\* C19: when the alias resolves to no collection path, no collection is
\* loaded, the chain completes once, and finish hands out no collection and
\* no error
C19_NoMappingNoLoad ==
    (alias.resolved /\ alias.path = "none")
        => /\ Len(alias.calls) = 1 /\ alias.calls[1][1] = "ReadAlias"
           /\ alias.form = "async" => alias.completions = 1
           /\ alias.finished
                  => alias.outCollection = NoItem /\ alias.outError = NoError

\* C19: the async chain found no collection for the alias, finish was called
C19_Witness ==
    /\ alias.form = "async"
    /\ alias.resolved /\ alias.path = "none"
    /\ alias.finished
    /\ alias.outCollection = NoItem /\ alias.outError = NoError

\* C20: when the service holds an instance for the resolved path, that
\* instance is handed out and no collection is loaded; otherwise exactly one
\* load is issued, for that path
C20_RegistryReuse ==
    (alias.resolved /\ alias.path # "none")
        => IF alias.path \in registry
           THEN /\ LoadCalls(alias) = {}
                /\ alias.form = "async" => alias.completions = 1
                /\ alias.finished
                       => /\ alias.outCollection = Registered(alias.path)
                          /\ alias.outError = NoError
           ELSE /\ LoadCalls(alias) = {2}
                /\ alias.calls[2] = <<"LoadCollection", <<alias.path>>>>

\* C20: the async chain resolved the alias to a path the service holds an
\* instance for, and finish handed it out
C20_Witness ==
    /\ alias.form = "async"
    /\ alias.resolved /\ alias.path \in registry
    /\ alias.finished
    /\ alias.outCollection = Registered(alias.path)

(***************************************************************************)
(* Properties of the linear chains: GetSecrets, Lock / Unlock, Lookup,     *)
(* Remove and ReadAlias.                                                   *)
(***************************************************************************)
\* the callback of r has run once, and that when its last call was answered
OnceWhenDone(r) ==
    /\ r.completions <= 1
    /\ r.completions = 1 <=> r.call = "done"

\* once the callback of r has run, r issues no call and completes no more
Settled(r, rn) ==
    r.completions > 0 => rn.calls = r.calls /\ rn.completions = r.completions

\* C24: each chain of GetSecrets, Lock / Unlock, Lookup, Remove and ReadAlias
\* runs its completion callback exactly once, when its last call is
\* answered, and issues no remote call after that
C24_ExactlyOnce ==
    /\ [](/\ OnceWhenDone(get)
          /\ OnceWhenDone(xlock)
          /\ OnceWhenDone(lookup)
          /\ OnceWhenDone(remove)
          /\ alias.form = "async" => OnceWhenDone(alias))
    /\ [][/\ Settled(get, get')
          /\ Settled(xlock, xlock')
          /\ Settled(lookup, lookup')
          /\ Settled(remove, remove')
          /\ Settled(alias, alias')]_vars

\* C24: a Lock / Unlock chain went through a prompt, completed and was
\* finished
C24_Witness ==
    /\ xlock.promptGave = "paths"
    /\ Len(xlock.calls) = 2
    /\ xlock.completions = 1
    /\ xlock.finished

(***************************************************************************)
(* Properties of the loads of a Search chain.                              *)
(***************************************************************************)
LoadPaths(r) == [i \in 1..Len(r.loads) |-> r.loads[i].path]
FoundPaths(r) == r.unlocked \o r.locked
Unresolved(paths) ==
    LET Unknown(p) == p \notin registry IN SelectSeq(paths, Unknown)

\* C25: the callback of a Search chain runs only in a step that leaves no
\* load pending, no load is started after it, and a load that succeeds puts
\* its item in the table whatever failed before it
C25_SiblingsNotAborted ==
    [][\A c \in DOMAIN search :
         LET r == search[c]
             rn == search'[c]
         IN /\ rn.completions > r.completions
                => rn.loading = 0 /\ PendingLoads(rn) = {}
            /\ r.completions > 0 => Len(rn.loads) = Len(r.loads)
            /\ \A i \in PendingLoads(r) :
                   rn.loads[i].st = "item"
                       => rn.items[r.loads[i].path]
                              = secret_item_new_finish(c, i, r.loads[i].path)
            /\ \A i \in PendingLoads(r) :
                   (rn.loads[i].st = "error" /\ PendingLoads(rn) # {})
                       => rn.completions = r.completions]_vars

\* C25: the first load failed, the second succeeded and its item is in the
\* table, and the chain completed once
C25_Witness ==
    LET r == search[1]
    IN /\ Len(r.loads) = 2
       /\ r.loads[1].st = "error" /\ r.firstError = Failed(1)
       /\ r.loads[2].st = "item"
       /\ r.items[r.loads[2].path] = secret_item_new_finish(1, 2, r.loads[2].path)
       /\ r.completions = 1

\* C26: a load is started for exactly the paths of the reply, in order, that
\* the service holds no instance for; a path it holds an instance for is
\* in the table with that instance; and when it holds one for every path the
\* chain completes with no load started
C26_RegistryResolution ==
    \A c \in DOMAIN search :
        LET r == search[c]
        IN r.listsSet
             => /\ LoadPaths(r) = Unresolved(FoundPaths(r))
                /\ \A i \in 1..Len(FoundPaths(r)) :
                       FoundPaths(r)[i] \in registry
                           => r.items[FoundPaths(r)[i]]
                                  = Registered(FoundPaths(r)[i])
                /\ Unresolved(FoundPaths(r)) = <<>>
                       => r.loads = <<>> /\ r.loading = 0 /\ r.completions = 1

\* C26: the reply names a path the service holds an instance for and one it
\* does not; one load was started
C26_Witness ==
    LET r == search[1]
    IN /\ r.listsSet
       /\ Len(FoundPaths(r)) = 2
       /\ FoundPaths(r)[1] \in registry
       /\ FoundPaths(r)[2] \notin registry
       /\ Len(r.loads) = 1
       /\ r.items[FoundPaths(r)[1]] = Registered(FoundPaths(r)[1])

(***************************************************************************)
(* Properties of Lookup and Remove when an upstream step fails.            *)
(***************************************************************************)
LookupSearchFailed ==
    lookup.started /\ lookup.call # "search" /\ ~lookup.searched
LookupUnlockFailed ==
    /\ Len(lookup.calls) >= 2 /\ lookup.calls[2][1] = "Unlock"
    /\ lookup.call # "unlock" /\ ~lookup.unlockOk
RemoveSearchFailed ==
    remove.started /\ remove.call # "search" /\ ~remove.searched

\* C27: when the search of a Lookup or Remove chain fails, or the unlock of
\* a Lookup chain, no further call is issued, the chain completes once, and
\* finish gives the failure value with the error of the step that failed
C27_UpstreamFailureAborts ==
    /\ LookupSearchFailed
           => /\ Len(lookup.calls) = 1
              /\ lookup.completions = 1
              /\ lookup.error \in {Failed(0), Cancelled}
              /\ lookup.finished
                     => lookup.outValue = NoValue /\ lookup.outError = lookup.error
    /\ LookupUnlockFailed
           => /\ Len(lookup.calls) = 2
              /\ lookup.completions = 1
              /\ lookup.error \in {Failed(1), Cancelled}
              /\ lookup.finished
                     => lookup.outValue = NoValue /\ lookup.outError = lookup.error
    /\ RemoveSearchFailed
           => /\ Len(remove.calls) = 1
              /\ remove.completions = 1
              /\ remove.error \in {Failed(0), Cancelled}
              /\ remove.finished
                     => ~remove.ret /\ remove.outError = remove.error

\* C27: the unlock of a Lookup chain failed and the search of a Remove chain
\* failed, and both were finished
C27_Witness ==
    /\ LookupUnlockFailed /\ lookup.finished /\ lookup.outError = Failed(1)
    /\ RemoveSearchFailed /\ remove.finished /\ remove.outError = Failed(0)

(***************************************************************************)
(* Properties of the call of a GetSecrets chain.                           *)
(***************************************************************************)
\* C28: a GetSecrets chain issues no GetSecrets call before its session is
\* established nor when that fails, and else exactly one, with the path of
\* every item given, in the order given
C28_OneGetSecretsCall ==
    /\ Len(get.calls) <= 1
    /\ get.call \in {"none", "session"} => get.calls = <<>>
    /\ get.error = Failed(0) => get.calls = <<>>
    /\ get.call = "GetSecrets" => get.calls = <<PathsOf(get.input)>>
    /\ get.replied => get.calls = <<PathsOf(get.input)>>
    /\ get.call = "done"
           => \/ get.calls = <<PathsOf(get.input)>>
              \/ get.calls = <<>> /\ get.error # NoError /\ ~get.replied

\* C28: two items of different paths given, the call answered
C28_Witness ==
    /\ Len(get.input) = 2
    /\ PathOf(get.input[1]) # PathOf(get.input[2])
    /\ get.replied /\ get.completions = 1
    /\ get.calls = <<<<PathOf(get.input[1]), PathOf(get.input[2])>>>>

\* C29: finish of a GetSecrets chain gives an error only when no reply
\* arrived (the session or the call failed), and a reply holding a secret
\* that does not decode makes finish fail
C29_FailureConditions ==
    get.finished
        => /\ get.outError # NoError => ~get.replied
           /\ (get.replied /\ get.outBad # {})
                  => ~get.ret /\ get.outError # NoError

(***************************************************************************)
(* Properties of a Lock / Unlock chain cancelled while its prompt runs.    *)
(***************************************************************************)
\* C30: the prompt of a Lock / Unlock chain is issued with the chain's
\* cancellable; when that is triggered while the prompt is outstanding, the
\* prompt ends with a cancellation error, the chain completes once with it
\* and issues nothing more, and finish gives -1 and that error
C30_PromptCancellation ==
    /\ xlock.call = "prompt" => xlock.promptToken = "chain"
    /\ xlock.cancelledAt = "prompt"
           => /\ Len(xlock.calls) = 2
              /\ xlock.call = "prompt" => xlock.completions = 0
              /\ xlock.call = "done"
                     => /\ xlock.promptGave = "error"
                        /\ xlock.error = Cancelled
                        /\ xlock.completions = 1
              /\ xlock.finished
                     => /\ xlock.count = -1
                        /\ xlock.outError = Cancelled
                        /\ ~xlock.listSet

\* C30: the chain was cancelled while its prompt was outstanding, completed
\* and was finished
C30_Witness ==
    /\ xlock.cancelledAt = "prompt"
    /\ xlock.replyPrompt
    /\ xlock.completions = 1
    /\ xlock.finished /\ xlock.count = -1 /\ xlock.outError = Cancelled

(***************************************************************************)
(* Properties of the blocking forms.                                       *)
(***************************************************************************)
\* the chain a blocking call runs
ChainOf(op) ==
    CASE op = "store" -> store
      [] op = "lookup" -> lookup
      [] op = "remove" -> remove
      [] op = "get" -> get
      [] op = "xlock" -> xlock
      [] op = "setalias" -> setalias

\* what the finish function of the chain gave
FinishGave(op) ==
    CASE op = "store" -> <<store.ret>>
      [] op = "lookup" -> <<lookup.outValue>>
      [] op = "remove" -> <<remove.ret>>
      [] op = "get" -> <<get.ret, get.outTable>>
      [] op = "xlock" -> <<xlock.count, xlock.outList>>
      [] op = "setalias" -> <<setalias.ret>>

\* what the blocking form returned
SyncGave(op) ==
    CASE op \in {"store", "remove", "setalias"} -> <<sync.retBool>>
      [] op = "lookup" -> <<sync.retValue>>
      [] op = "get" -> <<sync.retBool, sync.retTable>>
      [] op = "xlock" -> <<sync.retCount, sync.retList>>

\* C21: a blocking form that runs its loop does not call finish while the
\* loop runs, returns only after the chain's callback has run (once), and
\* returns the value and the error finish gave
C21_SyncBridgeResult ==
    /\ sync.stage = "loop" => ~ChainOf(sync.op).finished
    /\ (sync.stage = "returned" /\ ~sync.rejected)
           => /\ sync.loopRuns = 1
              /\ ChainOf(sync.op).completions = 1
              /\ ChainOf(sync.op).finished
              /\ SyncGave(sync.op) = FinishGave(sync.op)
              /\ sync.outError = ChainOf(sync.op).outError

\* C21: secret_service_unlock_sync returned a count of one and a list of
\* one object
C21_Witness ==
    /\ sync.op = "xlock" /\ sync.stage = "returned"
    /\ xlock.method = "Unlock"
    /\ sync.retCount = 1 /\ Len(sync.retList) = 1
    /\ sync.outError = NoError

\* C22: while a blocking form runs its loop its context is the one pushed
\* on the thread's default contexts; when it has returned, on a validation
\* failure (nothing pushed), on an error or on success (pushed and popped
\* once), the thread's default contexts are those of before the call, also
\* when an enclosing call had pushed its own
C22_ContextRestored ==
    /\ sync.stage = "loop"
           => /\ sync.stack = Append(sync.before, sync.context)
              /\ sync.pushes = 1 /\ sync.pops = 0
    /\ sync.stage = "returned"
           => /\ sync.stack = sync.before
              /\ sync.pushes = sync.pops
              /\ sync.pops = IF sync.rejected THEN 0 ELSE 1

\* C22: a blocking form called under the context of an enclosing call
\* returned an error
C22_Witness ==
    /\ sync.stage = "returned" /\ ~sync.rejected
    /\ sync.before = <<EnclosingContext>>
    /\ sync.outError # NoError
    /\ sync.stack = <<EnclosingContext>>

\* C23: the context of a blocking form is none the thread had, the calls of
\* its chain answer in it, and while its loop runs no handler of a chain
\* started before it runs: that chain stays where it was
C23_SyncIsolation ==
    /\ [](sync.stage = "loop"
             => /\ sync.context \notin Range(sync.before) \cup {DefaultContext}
                /\ sync.bound = sync.context)
    /\ [][sync.stage = "loop"
             => [alias' EXCEPT !.cancelled = alias.cancelled] = alias]_vars

\* C23: a blocking GetSecrets ran to its end and returned while the
\* ReadAlias chain started before it still waits for its first answer
C23_Witness ==
    /\ sync.op = "get" /\ sync.stage = "returned"
    /\ get.replied
    /\ alias.started /\ alias.call = "path" /\ alias.completions = 0

(***************************************************************************)
(* Properties of the stages of a Lock / Unlock chain.                      *)
(***************************************************************************)
\* the moves of closure between its stages: the call issued, its reply
\* final, its reply naming a prompt that is issued and waited for, the
\* prompt over
XlockMoves ==
    { <<"none", "called">>, <<"called", "done">>,
      <<"called", "prompt">>, <<"prompt", "done">> }

CallsOf(r, methods) == {i \in 1..Len(r.calls) : r.calls[i][1] \in methods}

\* C31: a Lock / Unlock chain goes from its call to done, or from its call
\* through one prompt to done; it issues at most one Lock / Unlock call and
\* at most one prompt, and once done it stays done and issues nothing
C31_PromptCycle ==
    /\ [](/\ Cardinality(CallsOf(xlock, {"Lock", "Unlock"})) <= 1
          /\ Cardinality(CallsOf(xlock, {"Prompt"})) <= 1
          /\ xlock.call = "prompt" => xlock.calls[Len(xlock.calls)][1] = "Prompt")
    /\ [][/\ xlock'.call # xlock.call
                 => <<xlock.call, xlock'.call>> \in XlockMoves
          /\ xlock.call = "done"
                 => /\ xlock'.call = "done"
                    /\ xlock'.calls = xlock.calls
                    /\ xlock'.completions = xlock.completions]_vars

\* C31: the chain went through a prompt that was dismissed and is done
C31_Witness ==
    /\ xlock.call = "done"
    /\ xlock.promptGave = "dismissed"
    /\ Len(xlock.calls) = 2
    /\ xlock.completions = 1

\* the calls of a chain that are issued and not answered
InFlight(r) == IF r.started /\ r.call # "done" THEN 1 ELSE 0
SearchInFlight(r) ==
    (IF r.call = "pending" THEN 1 ELSE 0) + Cardinality(PendingLoads(r))

\* the res of a chain holds one reference for each call in flight, its
\* closure is released when the last one is gone and not before, once, and
\* by then the callback has run
Lifetime(r, inflight, made) ==
    /\ r.refs = inflight
    /\ r.released = IF made /\ inflight = 0 THEN 1 ELSE 0
    /\ r.released = 1 => r.completions >= 1

\* C32: the closure of a chain is not released while one of its calls is
\* outstanding, and it is released exactly once, when the completion has
\* been delivered and the last callback has returned
C32_ClosureLifetime ==
    ~crashed =>
        /\ Lifetime(search[1], SearchInFlight(search[1]), search[1].started)
        /\ Lifetime(get, InFlight(get), get.started)
        /\ Lifetime(xlock, InFlight(xlock), xlock.started)
        /\ Lifetime(lookup, InFlight(lookup), lookup.started)
        /\ Lifetime(remove, InFlight(remove), remove.started)
        /\ alias.form = "async" =>
               Lifetime(alias, InFlight(alias), alias.started)

\* a Search chain released after the two loads it issued were answered
C32_Witness ==
    /\ ~crashed
    /\ Len(search[1].loads) = 2
    /\ PendingLoads(search[1]) = {}
    /\ search[1].released = 1
    /\ search[1].completions = 1

\* the paths whose load failed in the chain, and whether every path had one
\* outcome in it
FailedPaths(r) == {r.loads[i].path : i \in LoadsIn(r, "error")}
OneOutcomePerPath(r) ==
    \A i, j \in 1..Len(r.loads) :
        r.loads[i].path = r.loads[j].path => r.loads[i].st = r.loads[j].st
SyncOf(r) ==
    secret_service_search_sync(~r.searchFailed, r.unlocked, r.locked,
                               FailedPaths(r))

\* C33: secret_service_search_sync, given the reply, the registry and the
\* load outcome of each path that a Search chain met, returns what
\* secret_service_search_finish returned for the chain: the same success or
\* failure and, on success, lists of items for the same paths in the same
\* order
C33_SyncSearchAgrees ==
    \A c \in DOMAIN search :
        LET r == search[c]
        IN r.finished /\ OneOutcomePerPath(r) =>
              /\ SyncOf(r).ret = r.ret
              /\ r.ret => /\ PathsOf(SyncOf(r).unlocked) = PathsOf(r.outUnlocked)
                          /\ PathsOf(SyncOf(r).locked) = PathsOf(r.outLocked)

\* C34: between the steps of a Search chain closure->loading is the number
\* of loads issued and not answered, it never wraps below zero, and it is
\* zero in every step that runs the completion callback
C34_PendingCount ==
    /\ [](\A c \in DOMAIN search :
            /\ search[c].loading = Cardinality(PendingLoads(search[c]))
            /\ search[c].loading >= 0)
    /\ [][\A c \in DOMAIN search :
            search[c].completions' > search[c].completions
                => search[c].loading' = 0 /\ PendingLoads(search[c]') = {}]_vars

\* one of two loads answered, the other pending
C34_Witness ==
    /\ Len(search[1].loads) = 2
    /\ search[1].loading = 1
    /\ Cardinality(PendingLoads(search[1])) = 1
    /\ search[1].completions = 0

\* C35: a Lock / Unlock finish that succeeds and writes the list returns as
\* its count the length of that list, whatever paths the service reported
C35_CountMatchesList ==
    xlock.finished /\ xlock.wantList /\ xlock.count > 0
        => xlock.listSet /\ xlock.count = Len(xlock.outList)

\* C36: a Lock / Unlock finish given a location for the list and returning
\* 0 or -1 has written the empty list to the location
C36_EmptyListWritten ==
    xlock.finished /\ xlock.wantList /\ xlock.count <= 0
        => xlock.listSet /\ xlock.outList = <<>>

\* C37: a Search chain issues at most one load for any one path
C37_OneLoadPerPath ==
    \A c \in DOMAIN search :
        \A i, j \in 1..Len(search[c].loads) :
            search[c].loads[i].path = search[c].loads[j].path => i = j

\* C38: a blocking form runs its loop only when the entry point it called
\* has started the chain, so that a completion will quit the loop
C38_NeverWaitsInVain ==
    sync.stage = "loop" => ChainOf(sync.op).started

\* a chain with no call outstanding has run its callback
NeverStranded(r, inflight, made) ==
    made /\ inflight = 0 => r.completions > 0

\* C39: when every call is answered and the answers are dispatched, each
\* chain that was started runs its completion callback, and no chain is
\* ever left with no call outstanding and no completion
C39_EventualCompletion ==
    /\ [](/\ NeverStranded(search[1], SearchInFlight(search[1]), search[1].started)
          /\ NeverStranded(get, InFlight(get), get.started)
          /\ NeverStranded(xlock, InFlight(xlock), xlock.started)
          /\ NeverStranded(lookup, InFlight(lookup), lookup.started)
          /\ NeverStranded(remove, InFlight(remove), remove.started)
          /\ NeverStranded(alias, InFlight(alias), alias.form = "async"))
    /\ (\/ search[1].started \/ get.started \/ xlock.started
        \/ lookup.started \/ remove.started \/ alias.form = "async")
           ~> (/\ search[1].started => search[1].completions > 0
               /\ get.started => get.completions > 0
               /\ xlock.started => xlock.completions > 0
               /\ lookup.started => lookup.completions > 0
               /\ remove.started => remove.completions > 0
               /\ alias.form = "async" => alias.completions > 0)

\* a Lookup chain completed by the answer of an unlock that unlocked nothing
C39_Witness ==
    /\ lookup.unlockOk
    /\ lookup.unlockPaths = <<>>
    /\ Len(lookup.calls) = 2
    /\ lookup.completions = 1

\* C40: the finish function of a chain that recorded an error returns the
\* failure value with that error and none of what the chain had gathered
C40_ErrorPrecedence ==
    /\ \A c \in DOMAIN search :
           search[c].finished /\ search[c].error # NoError
               => /\ ~search[c].ret
                  /\ search[c].outError = search[c].error
                  /\ search[c].outUnlocked = <<>> /\ search[c].outLocked = <<>>
    /\ get.finished /\ get.error # NoError
           => ~get.ret /\ get.outError = get.error /\ get.outTable = {}
    /\ lookup.finished /\ lookup.error # NoError
           => lookup.outValue = NoValue /\ lookup.outError = lookup.error
    /\ alias.finished /\ alias.error # NoError
           => alias.outCollection = NoItem /\ alias.outError = alias.error
    /\ xlock.finished /\ xlock.error # NoError
           => /\ xlock.count = -1 /\ xlock.outError = xlock.error
              /\ ~xlock.handed /\ ~xlock.listSet /\ xlock.outList = <<>>
    /\ remove.finished /\ remove.error # NoError
           => ~remove.ret /\ remove.outError = remove.error

\* a Search chain that loaded one item and failed to load another, after
\* its finish was called
C40_Witness ==
    /\ search[1].finished
    /\ search[1].error # NoError
    /\ LoadsIn(search[1], "item") # {}
    /\ LoadsIn(search[1], "error") # {}
    /\ ~search[1].ret

====
